---- MODULE Spec2Model ----
(***************************************************************************)
(* Model of the grapeddit Reddit client (internal/redditclient).           *)
(*                                                                         *)
(* One Client instance talks to a transport (HTTPClient.Do).  A call runs  *)
(* up to the point where it blocks in Do; the transport then answers with  *)
(* a response or an error, and the call runs on to its next Do or to its   *)
(* return.  JSON documents are abstracted to their shape, their top-level  *)
(* "reason" string and a payload tag; gzip streams to the document they    *)
(* decompress to, or to one of two kinds of corruption.                    *)
(***************************************************************************)
EXTENDS Integers, Sequences, FiniteSets, TLC

\* ------------------------------------------------------------------ bounds
\* Number of operations (Authenticate or data calls) started in a behaviour.
MaxOps == 3

\* Number of goroutines that call the client at the same time.
NumCalls == 2

\* Largest number of entries of a header map handed to shuffleHeaders on its
\* own.
MaxHeaders == 3

\* ------------------------------------------------------- program constants
FullRateLimit == 100
RateLimitThreshold == 10
StatusOK == 200

CONTENT_WARNING_ACCEPT_COOKIE == "_options=%7B%22pref_quarantine_optin%22%3A%20true%2C%20%22pref_gated_sr_optin%22%3A%20true%7D"
ANDROID_CLIENT_ID == "ohXpoqrZYub1kg"
ApiHost == "https://oauth.reddit.com"
AuthURL == "https://www.reddit.com/auth/v2/oauth/access-token/loid"

\* The spoofed user-agent strings NewClient picks from: the first of the list.
androidVersions == {"Reddit/2023.46.0/Android 12"}
\* uuid.New().String() of NewClient: one opaque value per client.
DeviceIDs == {"device-uuid"}

\* ---------------------------------------------------------- JSON documents
NoBody == [shape |-> "none", reason |-> "", payload |-> "none"]
\* A JSON object; reason is its top-level "reason" string ("" when absent).
Obj(reason, payload) == [shape |-> "object", reason |-> reason, payload |-> payload]
ListingBody == Obj("", "listing")
ReasonBody(r) == Obj(r, "none")
\* The two-element array of the post-and-comments endpoint.
ArrayBody == [shape |-> "array", reason |-> "", payload |-> "pair"]
\* Arrays of other lengths and contents: none, three scalars, and a pair
\* whose first listing holds two posts.
EmptyArrayBody == [shape |-> "array", reason |-> "", payload |-> "empty"]
ScalarsBody == [shape |-> "array", reason |-> "", payload |-> "scalars"]
TwoPostsBody == [shape |-> "array", reason |-> "", payload |-> "twoPosts"]
\* The document of the morechildren endpoint.
ThingsBody == Obj("", "things")
\* The same with one entry, of kind t1, whose data is a string.
OddThingsBody == Obj("", "oddThings")
\* Bytes that are no JSON document at all.
GarbageBody == [shape |-> "invalid", reason |-> "", payload |-> "none"]

Reasons == {"gated", "quarantined", "private", "banned", ""}
Bodies == {ListingBody, ArrayBody} \cup {ReasonBody(r) : r \in Reasons}

\* ------------------------------------------------------ transport responses
\* What is on the wire: a plain document, the gzip stream of a document, a
\* stream whose gzip header is invalid, or one whose header is valid and
\* whose deflate data or checksum is not.
Plain(b) == [gz |-> "plain", data |-> b]
Gzip(b) == [gz |-> "gzip", data |-> b]
BadHeader == [gz |-> "badheader", data |-> NoBody]
BadBody == [gz |-> "badbody", data |-> NoBody]

\* rl is the response's x-ratelimit-remaining header ("" when it has none),
\* enc its Content-Encoding.
TransportError == [err |-> TRUE, status |-> 0, rl |-> "", enc |-> "", wire |-> Plain(NoBody)]
HTTPResponse(status, rl, enc, wire) ==
    [err |-> FALSE, status |-> status, rl |-> rl, enc |-> enc, wire |-> wire]

Statuses == {StatusOK, 404}
\* Values of x-ratelimit-remaining the transport serves: none, or a count.
RateLimitHeaders == {"", "42"}
\* The documents the transport also serves compressed.
GzipBodies == {ListingBody, ReasonBody("gated"), ReasonBody("private")}
Wires == {Plain(b) : b \in Bodies} \cup {Gzip(b) : b \in GzipBodies} \cup {BadHeader, BadBody}
Encoding(w) == IF w.gz = "plain" THEN "" ELSE "gzip"
DataResponses ==
    {TransportError}
    \cup {HTTPResponse(s, rl, Encoding(w), w) : s \in Statuses, rl \in RateLimitHeaders, w \in Wires}

\* ------------------------------------------------------------------ errors
NoErr == [kind |-> "nil", status |-> 0, reason |-> "", body |-> NoBody, wrap |-> ""]
Err(kind) == [kind |-> kind, status |-> 0, reason |-> "", body |-> NoBody, wrap |-> ""]
ErrNotAuthenticated == Err("client is not authenticated - call Authenticate() first")

NilResult == [type |-> "nil", body |-> NoBody]

\* ----------------------------------------------------------------- headers
\* net/http canonicalises a header name on Set and on Get.
CanonicalHeaderKey(k) ==
    CASE k = "x-reddit-loid" -> "X-Reddit-Loid"
      [] k = "x-reddit-session" -> "X-Reddit-Session"
      [] k = "client-vendor-id" -> "Client-Vendor-Id"
      [] k = "x-reddit-retry" -> "X-Reddit-Retry"
      [] k = "x-reddit-compression" -> "X-Reddit-Compression"
      [] k = "x-reddit-qos" -> "X-Reddit-Qos"
      [] k = "x-reddit-media-codecs" -> "X-Reddit-Media-Codecs"
      [] k = "header1" -> "Header1"
      [] OTHER -> k

NoHeader == [k \in {} |-> ""]
HeaderSet(h, k, v) ==
    [x \in DOMAIN h \cup {CanonicalHeaderKey(k)} |->
        IF x = CanonicalHeaderKey(k) THEN v ELSE h[x]]
HeaderGet(h, k) ==
    IF CanonicalHeaderKey(k) \in DOMAIN h THEN h[CanonicalHeaderKey(k)] ELSE ""

\* One req.Header.Set per key of the map, in the order keys lists them.
RECURSIVE SetAll(_, _, _)
SetAll(h, headers, keys) ==
    IF keys = <<>> THEN h
    ELSE SetAll(HeaderSet(h, Head(keys), headers[Head(keys)]), headers, Tail(keys))

RECURSIVE SomeOrder(_)
SomeOrder(S) ==
    IF S = {} THEN <<>>
    ELSE LET k == CHOOSE x \in S : TRUE IN <<k>> \o SomeOrder(S \ {k})
Reverse(q) == [i \in 1..Len(q) |-> q[Len(q) + 1 - i]]
\* The orders rand.Shuffle may leave the keys in: here one enumeration of
\* the key set and its reverse.
KeyOrders(S) == {SomeOrder(S), Reverse(SomeOrder(S))}

\* Variant: the loop over the shuffled keys stops one short.
shuffleHeaders_dropLast(h, headers, keys) ==
    SetAll(h, headers, SubSeq(keys, 1, Len(keys) - 1))

\* shuffleHeaders: every key of the map is Set on the request, in the
\* shuffled order keys.
shuffleHeaders(h, headers, keys) == SetAll(h, headers, keys)

\* Every order the keys S can be listed in.
AllOrders(S) ==
    {q \in [1..Cardinality(S) -> S] : \A i, j \in DOMAIN q : q[i] = q[j] => i = j}

\* keys[i], keys[j] = keys[j], keys[i]
Swap(keys, i, j) ==
    [x \in DOMAIN keys |-> IF x = i THEN keys[j] ELSE IF x = j THEN keys[i] ELSE keys[x]]

\* rand.Shuffle from position i down: position i is swapped with a position
\* drawn from the first i, then the same for i - 1, down to the second.
RECURSIVE ShuffleFrom(_, _)
ShuffleFrom(keys, i) ==
    IF i <= 1 THEN {keys}
    ELSE UNION {ShuffleFrom(Swap(keys, i, j), i - 1) : j \in 1..i}

\* Variant: the keys are used in the order they were collected in.
randShuffle_none(keys) == {keys}

\* The orders rand.Shuffle(len(keys), swap) can leave the slice keys in.
randShuffle(keys) == ShuffleFrom(keys, Len(keys))

\* ------------------------------------------------------------ query values
\* url.Values: key -> list of values.  A nil map and an empty map agree.
NoParams == [k \in {} |-> <<>>]
ValuesSet(p, k, v) == [x \in DOMAIN p \cup {k} |-> IF x = k THEN <<v>> ELSE p[x]]
ValuesAdd(p, k, v) ==
    [x \in DOMAIN p \cup {k} |->
        IF x = k THEN (IF k \in DOMAIN p THEN Append(p[k], v) ELSE <<v>>) ELSE p[x]]
\* Variant: the values are set, not added, so that the last one is left.
ValuesAddAll_lastOnly(p, k, vs) ==
    IF vs = <<>> THEN p ELSE ValuesSet(p, k, vs[Len(vs)])
RECURSIVE ValuesAddAll(_, _, _)
ValuesAddAll(p, k, vs) ==
    IF vs = <<>> THEN p ELSE ValuesAddAll(ValuesAdd(p, k, Head(vs)), k, Tail(vs))

\* ------------------------------------------------------------ URL strings
\* Where a string becomes part of a URL it is taken as the sequence of its
\* pieces, each of the characters ? # & = a piece of its own.  These are the
\* strings with such characters that calls are made with.
Pieces(str) ==
    CASE str = "pics#top" -> <<"pics", "#", "top">>
      [] str = "ask?me" -> <<"ask", "?", "me">>
      [] str = "a&b=c#d?e" -> <<"a", "&", "b", "=", "c", "#", "d", "?", "e">>
      [] OTHER -> <<str>>

RECURSIVE Join(_)
Join(toks) == IF toks = <<>> THEN "" ELSE Head(toks) \o Join(Tail(toks))

\* url.QueryEscape and url.QueryUnescape.
QueryEscape(toks) ==
    [i \in DOMAIN toks |->
        CASE toks[i] = "?" -> "%3F"
          [] toks[i] = "#" -> "%23"
          [] toks[i] = "&" -> "%26"
          [] toks[i] = "=" -> "%3D"
          [] OTHER -> toks[i]]
QueryUnescape(toks) ==
    [i \in DOMAIN toks |->
        CASE toks[i] = "%3F" -> "?"
          [] toks[i] = "%23" -> "#"
          [] toks[i] = "%26" -> "&"
          [] toks[i] = "%3D" -> "="
          [] OTHER -> toks[i]]

\* The parameter names the client uses, in the sorted order Values.Encode
\* writes them in.
ParamOrder == <<"api_type", "children", "link_id", "q", "raw_json", "sort", "t">>

RECURSIVE PairsFrom(_, _)
PairsFrom(p, order) ==
    IF order = <<>> THEN <<>>
    ELSE (IF Head(order) \in DOMAIN p
          THEN [i \in 1..Len(p[Head(order)]) |-> <<Head(order), p[Head(order)][i]>>]
          ELSE <<>>) \o PairsFrom(p, Tail(order))

RECURSIVE EncodePairs(_)
EncodePairs(pairs) ==
    IF pairs = <<>> THEN <<>>
    ELSE QueryEscape(Pieces(Head(pairs)[1])) \o <<"=">> \o QueryEscape(Pieces(Head(pairs)[2]))
         \o (IF Len(pairs) > 1 THEN <<"&">> \o EncodePairs(Tail(pairs)) ELSE <<>>)

\* params.Encode(): key=value for every value, escaped, joined by &.
Encode(p) == EncodePairs(PairsFrom(p, ParamOrder))

\* Position of the first piece c in toks, 0 when there is none.
IndexOf(toks, c) ==
    IF \E i \in DOMAIN toks : toks[i] = c
    THEN CHOOSE i \in DOMAIN toks : toks[i] = c /\ \A j \in 1..(i - 1) : toks[j] # c
    ELSE 0
Before(toks, c) == IF IndexOf(toks, c) = 0 THEN toks ELSE SubSeq(toks, 1, IndexOf(toks, c) - 1)
After(toks, c) ==
    IF IndexOf(toks, c) = 0 THEN <<>> ELSE SubSeq(toks, IndexOf(toks, c) + 1, Len(toks))

\* url.ParseQuery: the query is cut at every &, each part at its first =,
\* and key and value are unescaped.
RECURSIVE ParseQueryInto(_, _)
ParseQueryInto(p, toks) ==
    IF toks = <<>> THEN p
    ELSE LET part == Before(toks, "&")
             key == Join(QueryUnescape(Before(part, "=")))
             val == Join(QueryUnescape(After(part, "=")))
         IN  ParseQueryInto(IF part = <<>> THEN p ELSE ValuesAdd(p, key, val), After(toks, "&"))
ParseQuery(toks) == ParseQueryInto(NoParams, toks)

\* url.Parse of what follows the host: the fragment is what follows the
\* first #, the query what follows the first ? before it.
ParseURL(toks) ==
    LET u == Before(toks, "#")
    IN  [path |-> Join(Before(u, "?")), query |-> ParseQuery(After(u, "?"))]

\* ------------------------------------------------------------ decompressor
\* c.gzipReader: nil, or a gzip.Reader.  instance tells one constructed
\* reader from another (the nil pointer has 0); src is the stream the reader
\* was reset with, until it has been read; at is where the reader stands:
\* "open" after the stream header, "eof" after the stream's end, "err" after
\* an error.
NoStream == Plain(NoBody)
NilReader == [alloc |-> FALSE, at |-> "nil", src |-> NoStream, instance |-> 0]

\* gzip.NewReader and Reader.Reset read the stream header at once.
GzipHeaderOK(w) == w.gz \in {"gzip", "badbody"}

\* c.gzipReader, err = gzip.NewReader(resp.Body): a new reader on the stream,
\* or nil and an error.
NewReader(cur, w) ==
    IF GzipHeaderOK(w)
    THEN [reader |-> [alloc |-> TRUE, at |-> "open", src |-> w,
                      instance |-> cur.instance + 1],
          err |-> FALSE]
    ELSE [reader |-> NilReader, err |-> TRUE]

\* Variant: a reader that has failed stays failed.
Reset_stickyError(cur, w) ==
    IF GzipHeaderOK(w) /\ cur.at # "err"
    THEN [reader |-> [cur EXCEPT !.at = "open", !.src = w], err |-> FALSE]
    ELSE [reader |-> [cur EXCEPT !.at = "err", !.src = NoStream], err |-> TRUE]

\* c.gzipReader.Reset(resp.Body): the same reader on the new stream.
Reset(cur, w) ==
    IF GzipHeaderOK(w)
    THEN [reader |-> [cur EXCEPT !.at = "open", !.src = w], err |-> FALSE]
    ELSE [reader |-> [cur EXCEPT !.at = "err", !.src = NoStream], err |-> TRUE]

\* Variant: a reader that exists is used as it stands, without Reset.
gzipInit_noReset(cur, w) ==
    IF ~cur.alloc THEN NewReader(cur, w) ELSE [reader |-> cur, err |-> FALSE]

\* Variant: every gzip response gets a reader of its own.
gzipInit_alwaysNew(cur, w) == NewReader(cur, w)

\* readResponseBody under the mutex: construct the reader on first use,
\* reset it from then on.
gzipInit(cur, w) ==
    IF ~cur.alloc THEN NewReader(cur, w) ELSE Reset(cur, w)

\* io.ReadAll(c.gzipReader): the rest of the reader's stream.  A reader at
\* the end of its stream gives no bytes, a reader that failed gives its error.
ReadAll(cur) ==
    CASE cur.at = "open" /\ cur.src.gz = "gzip" ->
           [body |-> cur.src.data, err |-> FALSE,
            reader |-> [cur EXCEPT !.at = "eof", !.src = NoStream]]
      [] cur.at = "open" /\ cur.src.gz # "gzip" ->
           [body |-> NoBody, err |-> TRUE,
            reader |-> [cur EXCEPT !.at = "err", !.src = NoStream]]
      [] cur.at = "eof" -> [body |-> NoBody, err |-> FALSE, reader |-> cur]
      [] OTHER -> [body |-> NoBody, err |-> TRUE, reader |-> cur]

\* io.ReadAll(resp.Body) of a response without Content-Encoding: gzip.
ReadPlain(w) == IF w.gz = "plain" THEN w.data ELSE GarbageBody

\* readResponseBody.  Result: the bytes read, whether an error is returned,
\* the decompressor the client holds afterwards and whether it was used.
readResponseBody(resp, reader) ==
    IF resp.enc = "gzip"
    THEN LET init == gzipInit(reader, resp.wire)
             rd == ReadAll(init.reader)
         IN  IF init.err
             THEN [body |-> NoBody, err |-> TRUE, reader |-> init.reader, used |-> TRUE]
             ELSE [body |-> rd.body, err |-> rd.err, reader |-> rd.reader, used |-> TRUE]
    ELSE [body |-> ReadPlain(resp.wire), err |-> FALSE, reader |-> reader, used |-> FALSE]

\* -------------------------------------------------------------- rate budget
\* Variant: a header that holds a number sets the budget to it.
Decrement_parsed(rl, rateLimitStr) ==
    CASE rateLimitStr = "0" -> 0
      [] rateLimitStr = "42" -> 42
      [] rateLimitStr = "57" -> 57
      [] OTHER -> rl - 1

\* c.rateLimit--: the header value is not parsed.
Decrement(rl, rateLimitStr) == rl - 1

\* Variant: the budget is refilled only once it is used up.
Refill_atZero(rl) == IF rl < 0 THEN FullRateLimit ELSE rl

\* if c.rateLimit < 10 { c.rateLimit = 100 }
Refill(rl) == IF rl < RateLimitThreshold THEN FullRateLimit ELSE rl

\* updateRateLimit, run from Lock to Unlock without another goroutine in
\* between.
updateRateLimit(rl, rateLimitStr) == Refill(Decrement(rl, rateLimitStr))

\* ------------------------------------------------------------ JSON decoding
\* json.Unmarshal(body, &ErrorResponse{}): err == nil and the Reason read.
UnmarshalErrorResponse(body) ==
    [ok |-> body.shape = "object", Reason |-> IF body.shape = "object" THEN body.reason ELSE ""]

\* JSON values.
JNull == [t |-> "null"]
JStr(s) == [t |-> "string", str |-> s]
JNum(n) == [t |-> "number", num |-> n]
JArr(elems) == [t |-> "array", elems |-> elems]
JObj(fields) == [t |-> "object", fields |-> fields]

\* The things reddit serves: a child of a listing, a listing, a post, a
\* comment with its replies, a "more" placeholder.
JChild(kind, data) == JObj([kind |-> JStr(kind), data |-> data])
JListing(children) ==
    JObj([kind |-> JStr("Listing"), data |-> JObj([children |-> JArr(children)])])
JPost(id) == JObj([id |-> JStr(id), title |-> JStr("Test Post"), score |-> JNum(42)])
JComment(id, replies) ==
    JObj([id |-> JStr(id), body |-> JStr("Great post!"), replies |-> replies])
JMore == JObj([id |-> JStr("more123"), count |-> JNum(10),
               children |-> JArr(<<JStr("child1"), JStr("child2")>>)])
\* Two top-level nodes: a comment with a reply, which is a leaf (replies is
\* the empty string) and a placeholder below it, and a placeholder.
JCommentNodes ==
    <<JChild("t1", JComment("comment1",
                     JListing(<<JChild("t1", JComment("comment2", JStr(""))),
                                JChild("more", JMore)>>))),
      JChild("more", JMore)>>

\* The JSON value a document stands for, by its payload tag.
ObjectFields(payload) ==
    CASE payload = "none" -> [x \in {} |-> JNull]
      [] payload = "things" ->
           [json |-> JObj([errors |-> JArr(<<>>),
                           data |-> JObj([things |-> JArr(JCommentNodes)])])]
      [] payload = "oddThings" ->
           [json |-> JObj([errors |-> JArr(<<>>),
                           data |-> JObj([things |-> JArr(<<JChild("t1", JStr("oops"))>>)])])]
      [] OTHER -> JListing(<<JChild("t3", JPost("abc123"))>>).fields
ArrayElems(payload) ==
    CASE payload = "pair" -> <<JListing(<<JChild("t3", JPost("abc123"))>>),
                               JListing(JCommentNodes)>>
      [] payload = "twoPosts" ->
           <<JListing(<<JChild("t3", JPost("abc123")), JChild("t3", JPost("def456"))>>),
             JListing(JCommentNodes)>>
      [] payload = "scalars" -> <<JNum(1), JStr("x"), JNum(3)>>
      [] OTHER -> <<>>
Content(body) ==
    CASE body.shape = "object" ->
           JObj([k \in DOMAIN ObjectFields(body.payload)
                        \cup (IF body.reason # "" THEN {"reason"} ELSE {}) |->
                    IF k = "reason" /\ body.reason # "" THEN JStr(body.reason)
                    ELSE ObjectFields(body.payload)[k]])
      [] body.shape = "array" -> JArr(ArrayElems(body.payload))
      [] OTHER -> JNull
\* Whether the bytes are a JSON document at all.
ValidJSON(body) == body.shape \in {"object", "array"}

\* Go types, as far as decoding tells them apart.
GoString == [k |-> "string"]
GoNumber == [k |-> "number"]
GoAny == [k |-> "interface"]
GoSlice(elem) == [k |-> "slice", elem |-> elem]
GoArray(n, elem) == [k |-> "array", n |-> n, elem |-> elem]
GoStruct(name, fields) == [k |-> "struct", name |-> name, fields |-> fields]

PostType ==
    GoStruct("Post", [id |-> GoString, title |-> GoString, author |-> GoString,
                      subreddit |-> GoString, score |-> GoNumber, url |-> GoString,
                      selftext |-> GoString, num_comments |-> GoNumber,
                      created_utc |-> GoNumber])
CommentChildType == GoStruct("CommentChild", [kind |-> GoString, data |-> GoAny])
GoType(type) ==
    CASE type = "SubredditListing" ->
           GoStruct(type, [kind |-> GoString,
                           data |-> GoStruct("", [children |-> GoSlice(GoStruct("",
                                                     [kind |-> GoString, data |-> PostType])),
                                                  after |-> GoString, before |-> GoString])])
      [] type = "SearchResponse" ->
           GoStruct(type, [kind |-> GoString,
                           data |-> GoStruct("", [children |-> GoSlice(GoStruct("",
                                                     [kind |-> GoString, data |-> PostType]))])])
      [] type = "PostResponse" ->
           GoStruct(type, [kind |-> GoString,
                           data |-> GoStruct("", [children |-> GoSlice(GoStruct("",
                                                     [kind |-> GoString, data |-> GoAny]))])])
      [] type = "UserResponse" ->
           GoStruct(type, [kind |-> GoString,
                           data |-> GoStruct("", [name |-> GoString, link_karma |-> GoNumber,
                                                  comment_karma |-> GoNumber,
                                                  created_utc |-> GoNumber])])
      [] type = "PostAndCommentsResponse" -> GoArray(2, GoAny)
      [] type = "MoreCommentsResponse" ->
           GoStruct(type, [json |-> GoStruct("", [errors |-> GoSlice(GoAny),
                                                  data |-> GoStruct("",
                                                     [things |-> GoSlice(CommentChildType)])])])

\* Go values.
GoNil == [go |-> "nil"]
GoStr(s) == [go |-> "string", str |-> s]
GoNum(n) == [go |-> "float64", num |-> n]
GoMap(entries) == [go |-> "map", entries |-> entries]
GoElems(kind, elems) == [go |-> kind, elems |-> elems]
GoStructValue(name, fields) == [go |-> "struct", name |-> name, fields |-> fields]

\* json.Unmarshal into an interface{}: objects become maps, arrays slices.
RECURSIVE DecodeAny(_)
DecodeAny(j) ==
    CASE j.t = "string" -> GoStr(j.str)
      [] j.t = "number" -> GoNum(j.num)
      [] j.t = "array" -> GoElems("slice", [i \in DOMAIN j.elems |-> DecodeAny(j.elems[i])])
      [] j.t = "object" -> GoMap([f \in DOMAIN j.fields |-> DecodeAny(j.fields[f])])
      [] OTHER -> GoNil

RECURSIVE Zero(_)
Zero(ty) ==
    CASE ty.k = "string" -> GoStr("")
      [] ty.k = "number" -> GoNum(0)
      [] ty.k = "slice" -> GoElems("slice", <<>>)
      [] ty.k = "array" -> GoElems("array", [i \in 1..ty.n |-> Zero(ty.elem)])
      [] ty.k = "struct" -> GoStructValue(ty.name, [f \in DOMAIN ty.fields |-> Zero(ty.fields[f])])
      [] OTHER -> GoNil

\* json.Unmarshal of a value into a variable of type ty: whether it
\* succeeds, and the value.  null leaves the zero value; a struct takes the
\* keys it has fields for; an array of n takes the first n elements.
RECURSIVE Decode(_, _)
Decode(j, ty) ==
    CASE j.t = "null" -> [ok |-> TRUE, v |-> Zero(ty)]
      [] ty.k = "interface" -> [ok |-> TRUE, v |-> DecodeAny(j)]
      [] ty.k = "string" /\ j.t = "string" -> [ok |-> TRUE, v |-> GoStr(j.str)]
      [] ty.k = "number" /\ j.t = "number" -> [ok |-> TRUE, v |-> GoNum(j.num)]
      [] ty.k = "struct" /\ j.t = "object" ->
           LET sub == [f \in DOMAIN ty.fields |->
                          IF f \in DOMAIN j.fields THEN Decode(j.fields[f], ty.fields[f])
                          ELSE [ok |-> TRUE, v |-> Zero(ty.fields[f])]]
           IN  [ok |-> \A f \in DOMAIN sub : sub[f].ok,
                v |-> GoStructValue(ty.name, [f \in DOMAIN sub |-> sub[f].v])]
      [] ty.k = "slice" /\ j.t = "array" ->
           LET sub == [i \in DOMAIN j.elems |-> Decode(j.elems[i], ty.elem)]
           IN  [ok |-> \A i \in DOMAIN sub : sub[i].ok,
                v |-> GoElems("slice", [i \in DOMAIN sub |-> sub[i].v])]
      [] ty.k = "array" /\ j.t = "array" ->
           LET sub == [i \in 1..ty.n |->
                          IF i <= Len(j.elems) THEN Decode(j.elems[i], ty.elem)
                          ELSE [ok |-> TRUE, v |-> Zero(ty.elem)]]
           IN  [ok |-> \A i \in DOMAIN sub : sub[i].ok,
                v |-> GoElems("array", [i \in DOMAIN sub |-> sub[i].v])]
      [] OTHER -> [ok |-> FALSE, v |-> Zero(ty)]

\* json.Unmarshal(body, &v) for the typed result of an operation.
Unmarshal(body, type) ==
    IF ValidJSON(body) THEN Decode(Content(body), GoType(type))
    ELSE [ok |-> FALSE, v |-> Zero(GoType(type))]
UnmarshalOK(body, type) == Unmarshal(body, type).ok

\* --------------------------------------------------------- data operations
DataOps == {"GetSubreddit", "GetPost", "GetUser", "Search", "GetComments", "GetMoreComments"}

\* Arguments of a call: the string arguments in order, and the children list
\* of GetMoreComments.
Args(s, children) == [s |-> s, children |-> children]
NoArgs == Args(<<>>, <<>>)
OpArgs(op) ==
    CASE op = "GetSubreddit" -> {Args(<<"golang", "hot">>, <<>>)}
      [] op = "GetPost" -> {Args(<<"golang", "abc123">>, <<>>)}
      [] op = "GetUser" -> {Args(<<"alice">>, <<>>)}
      [] op = "Search" -> {Args(<<"golang", "top", "week">>, <<>>)}
      [] op = "GetComments" -> {Args(<<"golang", "abc123", srt>>, <<>>) : srt \in {"", "top"}}
      [] op = "GetMoreComments" -> {Args(<<"t3_abc123">>, ch) : ch \in {<<>>, <<"c1", "c2">>}}

\* The endpoint the operation formats, as pieces.
Endpoint(op, a) ==
    CASE op = "GetSubreddit" ->
           <<"/r/">> \o Pieces(a.s[1]) \o <<"/">> \o Pieces(a.s[2]) \o <<".json">>
      [] op = "GetPost" ->
           <<"/r/">> \o Pieces(a.s[1]) \o <<"/comments/">> \o Pieces(a.s[2]) \o <<".json">>
      [] op = "GetUser" -> <<"/user/">> \o Pieces(a.s[1]) \o <<"/about.json">>
      [] op = "Search" -> <<"/search.json">>
      [] op = "GetComments" ->
           <<"/r/">> \o Pieces(a.s[1]) \o <<"/comments/">> \o Pieces(a.s[2]) \o <<".json">>
      [] op = "GetMoreComments" -> <<"/api/morechildren.json">>

\* The url.Values the operation hands to makeAPIRequest (nil for the first
\* three).
OpParams(op, a) ==
    CASE op = "Search" ->
           ValuesSet(ValuesSet(ValuesSet(NoParams, "q", a.s[1]), "sort", a.s[2]), "t", a.s[3])
      [] op = "GetComments" ->
           IF a.s[3] # "" THEN ValuesSet(NoParams, "sort", a.s[3]) ELSE NoParams
      [] op = "GetMoreComments" ->
           ValuesAddAll(ValuesSet(ValuesSet(NoParams, "api_type", "json"), "link_id", a.s[1]),
                        "children", a.children)
      [] OTHER -> NoParams

ResultType(op) ==
    CASE op = "GetSubreddit" -> "SubredditListing"
      [] op = "GetPost" -> "PostResponse"
      [] op = "GetUser" -> "UserResponse"
      [] op = "Search" -> "SearchResponse"
      [] op = "GetComments" -> "PostAndCommentsResponse"
      [] op = "GetMoreComments" -> "MoreCommentsResponse"

DecodeErr(op) ==
    CASE op = "GetSubreddit" -> Err("failed to decode subreddit listing")
      [] op = "GetPost" -> Err("failed to decode post")
      [] op = "GetUser" -> Err("failed to decode user")
      [] op = "Search" -> Err("failed to decode search results")
      [] op = "GetComments" -> Err("failed to decode post and comments")
      [] op = "GetMoreComments" -> Err("failed to decode more comments")

\* Variant: a body that does not decode is returned as a result, half filled,
\* next to the decode error.
OpReturn_partial(op, body, err) ==
    IF err # NoErr
    THEN [err |-> err, result |-> NilResult]
    ELSE IF UnmarshalOK(body, ResultType(op))
         THEN [err |-> NoErr, result |-> [type |-> ResultType(op), body |-> body]]
         ELSE [err |-> DecodeErr(op), result |-> [type |-> ResultType(op), body |-> body]]

\* What the operation does with what makeAPIRequest returned: an error is
\* passed on (GetComments wraps it), a body is decoded into the typed result.
OpReturn(op, body, err) ==
    IF err # NoErr
    THEN [err |-> IF op = "GetComments"
                  THEN [err EXCEPT !.wrap = "error making GetComments API request"]
                  ELSE err,
          result |-> NilResult]
    ELSE IF UnmarshalOK(body, ResultType(op))
         THEN [err |-> NoErr, result |-> [type |-> ResultType(op), body |-> body]]
         ELSE [err |-> DecodeErr(op), result |-> NilResult]

\* ------------------------------------------------------------------ requests
\* Variant: x-reddit-session is filled from the loid.
DataHeaders_sessionFromLoid(tok, ua, l, s) ==
    [k \in {"Authorization", "User-Agent", "x-reddit-loid", "x-reddit-session",
            "Accept-Encoding"} |->
        CASE k = "Authorization" -> "Bearer " \o tok
          [] k = "User-Agent" -> ua
          [] k = "x-reddit-loid" -> l
          [] k = "x-reddit-session" -> l
          [] k = "Accept-Encoding" -> "gzip"]

\* Variant: User-Agent is the first of the list, whatever the client drew.
DataHeaders_firstAgent(tok, ua, l, s) ==
    [k \in {"Authorization", "User-Agent", "x-reddit-loid", "x-reddit-session",
            "Accept-Encoding"} |->
        CASE k = "Authorization" -> "Bearer " \o tok
          [] k = "User-Agent" -> "Reddit/2023.46.0/Android 12"
          [] k = "x-reddit-loid" -> l
          [] k = "x-reddit-session" -> s
          [] k = "Accept-Encoding" -> "gzip"]

\* makeAPIRequest, up to the first Do: raw_json is set on the parameters and
\* the five headers are put on a GET to the API host.
DataHeaders(tok, ua, l, s) ==
    [k \in {"Authorization", "User-Agent", "x-reddit-loid", "x-reddit-session",
            "Accept-Encoding"} |->
        CASE k = "Authorization" -> "Bearer " \o tok
          [] k = "User-Agent" -> ua
          [] k = "x-reddit-loid" -> l
          [] k = "x-reddit-session" -> s
          [] k = "Accept-Encoding" -> "gzip"]

\* Variant: raw_json replaces the parameters of the operation.
fullURL_onlyRawJson(endpoint, params) ==
    endpoint \o <<"?">> \o Encode(ValuesSet(NoParams, "raw_json", "1"))

\* params.Set("raw_json", "1") and fullURL, after the host: the endpoint,
\* and ? and the encoded parameters (there is always one).
fullURL(endpoint, params) ==
    endpoint \o <<"?">> \o Encode(ValuesSet(params, "raw_json", "1"))

\* Variant: the consent cookie is on the request from the first send on.
DataRequest_cookieAlways(endpoint, params, headers, keys) ==
    LET u == ParseURL(fullURL(endpoint, params))
    IN  [method |-> "GET",
         url |-> [base |-> ApiHost, path |-> u.path, query |-> u.query],
         header |-> HeaderSet(shuffleHeaders(NoHeader, headers, keys), "Cookie",
                              CONTENT_WARNING_ACCEPT_COOKIE),
         body |-> <<>>]

\* http.NewRequest("GET", fullURL, nil), which parses the URL, and the
\* headers.
DataRequest(endpoint, params, headers, keys) ==
    LET u == ParseURL(fullURL(endpoint, params))
    IN  [method |-> "GET",
         url |-> [base |-> ApiHost, path |-> u.path, query |-> u.query],
         header |-> shuffleHeaders(NoHeader, headers, keys),
         body |-> <<>>]

\* Variant: the retry is a new request to the same URL that has the cookie
\* and no other header.
WithCookie_fresh(req) ==
    [req EXCEPT !.header = HeaderSet(NoHeader, "Cookie", CONTENT_WARNING_ACCEPT_COOKIE)]

\* handleRestrictedContent sets the consent cookie on the original request.
WithCookie(req) ==
    [req EXCEPT !.header = HeaderSet(req.header, "Cookie", CONTENT_WARNING_ACCEPT_COOKIE)]

\* base64.StdEncoding.EncodeToString, kept symbolic.
Base64(str) == "base64(" \o str \o ")"

\* fmt.Sprintf("%.3f", rand.Float64()*100)
QosValues == {"12.345"}

\* Variant: client-vendor-id carries the client id, not the device id.
AuthHeaders_vendorIsClient(ua, dev, qos) ==
    [k \in {"Authorization", "User-Agent", "X-Reddit-Device-Id", "client-vendor-id",
            "Content-Type", "x-reddit-retry", "x-reddit-compression", "x-reddit-qos",
            "x-reddit-media-codecs"} |->
        CASE k = "Authorization" -> "Basic " \o Base64(ANDROID_CLIENT_ID \o ":")
          [] k = "User-Agent" -> ua
          [] k = "X-Reddit-Device-Id" -> dev
          [] k = "client-vendor-id" -> ANDROID_CLIENT_ID
          [] k = "Content-Type" -> "application/json; charset=UTF-8"
          [] k = "x-reddit-retry" -> "algo=no-retries"
          [] k = "x-reddit-compression" -> "1"
          [] k = "x-reddit-qos" -> qos
          [] k = "x-reddit-media-codecs" ->
               "available-codecs=video/avc, video/hevc, video/x-vnd.on2.vp9"]

\* The header map Authenticate builds.
AuthHeaders(ua, dev, qos) ==
    [k \in {"Authorization", "User-Agent", "X-Reddit-Device-Id", "client-vendor-id",
            "Content-Type", "x-reddit-retry", "x-reddit-compression", "x-reddit-qos",
            "x-reddit-media-codecs"} |->
        CASE k = "Authorization" -> "Basic " \o Base64(ANDROID_CLIENT_ID \o ":")
          [] k = "User-Agent" -> ua
          [] k = "X-Reddit-Device-Id" -> dev
          [] k = "client-vendor-id" -> dev
          [] k = "Content-Type" -> "application/json; charset=UTF-8"
          [] k = "x-reddit-retry" -> "algo=no-retries"
          [] k = "x-reddit-compression" -> "1"
          [] k = "x-reddit-qos" -> qos
          [] k = "x-reddit-media-codecs" ->
               "available-codecs=video/avc, video/hevc, video/x-vnd.on2.vp9"]

AuthRequest(headers, keys) ==
    [method |-> "POST",
     url |-> [base |-> AuthURL, path |-> "", query |-> NoParams],
     header |-> shuffleHeaders(NoHeader, headers, keys),
     body |-> <<"*", "email", "pii">>]

\* ------------------------------------------------ authentication responses
\* The token endpoint's answer: a transport error, or a status, a body that
\* decodes into OAuthResponse or does not, and the two session headers.
Tokens == {"tok1", "tok2", ""}
SessionHeaders == {<<"loid1", "sess1">>, <<"loid2", "sess2">>}
AuthTransportError ==
    [err |-> TRUE, status |-> 0, decodable |-> FALSE, access_token |-> "",
     loid |-> "", session |-> ""]
AuthResponses ==
    {AuthTransportError}
    \cup {[err |-> FALSE, status |-> st, decodable |-> TRUE, access_token |-> t,
           loid |-> h[1], session |-> h[2]] :
            st \in {StatusOK, 401}, t \in Tokens, h \in SessionHeaders}
    \cup {[err |-> FALSE, status |-> st, decodable |-> FALSE, access_token |-> "",
           loid |-> h[1], session |-> h[2]] :
            st \in {StatusOK, 401}, h \in SessionHeaders}

\* ------------------------------------------------------------ the pipeline
\* Variant: the operation does not check the flag.
notAuthenticated_unchecked(auth) == FALSE

\* The guard every data operation starts with.
notAuthenticated(auth) == ~auth

\* The guard makeAPIRequest starts with.
noAccessToken(tok) == tok = ""

\* A step of a call: the fields of the client it writes, what it returns
\* (next = "return") or the request it sends next (next = "await").
Step(rl, reader, used, next, body, err, resend) ==
    [rateLimit |-> rl, reader |-> reader, used |-> used, next |-> next,
     body |-> body, err |-> err, resend |-> resend]

\* Variant: only "gated" is resent, "quarantined" falls to the default case.
handleRestrictedContent_gatedOnly(originalReq, reason, rl, reader, used) ==
    CASE reason = "gated" ->
           Step(rl, reader, used, "await", NoBody, NoErr, <<WithCookie(originalReq)>>)
      [] reason = "private" ->
           Step(rl, reader, used, "return", NoBody,
                Err("content is private and cannot be accessed"), <<>>)
      [] OTHER ->
           Step(rl, reader, used, "return", NoBody,
                [Err("unknown content restriction") EXCEPT !.reason = reason], <<>>)

\* Variant: "private" is resent with the consent cookie as well.
handleRestrictedContent_retryPrivate(originalReq, reason, rl, reader, used) ==
    CASE reason \in {"gated", "quarantined", "private"} ->
           Step(rl, reader, used, "await", NoBody, NoErr, <<WithCookie(originalReq)>>)
      [] OTHER ->
           Step(rl, reader, used, "return", NoBody,
                [Err("unknown content restriction") EXCEPT !.reason = reason], <<>>)

\* handleRestrictedContent, up to its Do.
handleRestrictedContent(originalReq, reason, rl, reader, used) ==
    CASE reason \in {"gated", "quarantined"} ->
           Step(rl, reader, used, "await", NoBody, NoErr, <<WithCookie(originalReq)>>)
      [] reason = "private" ->
           Step(rl, reader, used, "return", NoBody,
                Err("content is private and cannot be accessed"), <<>>)
      [] OTHER ->
           Step(rl, reader, used, "return", NoBody,
                [Err("unknown content restriction") EXCEPT !.reason = reason], <<>>)

\* Variant: the rate budget is updated only for a response that was read and
\* has status 200.
makeAPIRequestOnResponse_rateAfterStatus(req, resp, rl, reader) ==
    LET rl2 == IF resp.rl # "" THEN updateRateLimit(rl, resp.rl) ELSE rl
        rb == readResponseBody(resp, reader)
        used == IF rb.used THEN 1 ELSE 0
        errorResp == UnmarshalErrorResponse(rb.body)
    IN  IF rb.err
        THEN Step(rl, rb.reader, used, "return", NoBody,
                  Err("failed to read response"), <<>>)
        ELSE IF resp.status # StatusOK
        THEN Step(rl, rb.reader, used, "return", NoBody,
                  [Err("API request failed with status") EXCEPT
                       !.status = resp.status, !.body = rb.body], <<>>)
        ELSE IF errorResp.ok /\ errorResp.Reason # ""
        THEN handleRestrictedContent(req, errorResp.Reason, rl2, rb.reader, used)
        ELSE Step(rl2, rb.reader, used, "return", rb.body, NoErr, <<>>)

\* Variant: a body that does not decode into ErrorResponse is handed to
\* handleRestrictedContent as well, with the empty reason.
makeAPIRequestOnBody_objectsOnly(req, resp, rb, rl2) ==
    LET used == IF rb.used THEN 1 ELSE 0
        errorResp == UnmarshalErrorResponse(rb.body)
    IN  IF rb.err
        THEN Step(rl2, rb.reader, used, "return", NoBody,
                  Err("failed to read response"), <<>>)
        ELSE IF resp.status # StatusOK
        THEN Step(rl2, rb.reader, used, "return", NoBody,
                  [Err("API request failed with status") EXCEPT
                       !.status = resp.status, !.body = rb.body], <<>>)
        ELSE IF ~errorResp.ok \/ errorResp.Reason # ""
        THEN handleRestrictedContent(req, errorResp.Reason, rl2, rb.reader, used)
        ELSE Step(rl2, rb.reader, used, "return", rb.body, NoErr, <<>>)

\* Variant: the restriction is looked for before the status is checked.
makeAPIRequestOnBody_restrictionFirst(req, resp, rb, rl2) ==
    LET used == IF rb.used THEN 1 ELSE 0
        errorResp == UnmarshalErrorResponse(rb.body)
    IN  IF rb.err
        THEN Step(rl2, rb.reader, used, "return", NoBody,
                  Err("failed to read response"), <<>>)
        ELSE IF errorResp.ok /\ errorResp.Reason # ""
        THEN handleRestrictedContent(req, errorResp.Reason, rl2, rb.reader, used)
        ELSE IF resp.status # StatusOK
        THEN Step(rl2, rb.reader, used, "return", NoBody,
                  [Err("API request failed with status") EXCEPT
                       !.status = resp.status, !.body = rb.body], <<>>)
        ELSE Step(rl2, rb.reader, used, "return", rb.body, NoErr, <<>>)

\* makeAPIRequest once readResponseBody has returned rb: read error,
\* status, restriction.
makeAPIRequestOnBody(req, resp, rb, rl2) ==
    LET used == IF rb.used THEN 1 ELSE 0
        errorResp == UnmarshalErrorResponse(rb.body)
    IN  IF rb.err
        THEN Step(rl2, rb.reader, used, "return", NoBody,
                  Err("failed to read response"), <<>>)
        ELSE IF resp.status # StatusOK
        THEN Step(rl2, rb.reader, used, "return", NoBody,
                  [Err("API request failed with status") EXCEPT
                       !.status = resp.status, !.body = rb.body], <<>>)
        ELSE IF errorResp.ok /\ errorResp.Reason # ""
        THEN handleRestrictedContent(req, errorResp.Reason, rl2, rb.reader, used)
        ELSE Step(rl2, rb.reader, used, "return", rb.body, NoErr, <<>>)

\* Variant: when the budget is refilled the call goes on to ask the token
\* endpoint for a new token.
makeAPIRequestOnResponse_refreshOnRefill(req, resp, rl, reader) ==
    IF resp.rl # "" /\ Decrement(rl, resp.rl) < RateLimitThreshold
    THEN Step(updateRateLimit(rl, resp.rl), reader, 0, "await", NoBody, NoErr,
              <<[req EXCEPT !.method = "POST",
                            !.url = [base |-> AuthURL, path |-> "", query |-> NoParams]]>>)
    ELSE makeAPIRequestOnBody(req, resp, readResponseBody(resp, reader),
                              IF resp.rl # "" THEN updateRateLimit(rl, resp.rl) ELSE rl)

\* makeAPIRequest once Do has returned a response: rate budget, body,
\* status, restriction.
makeAPIRequestOnResponse(req, resp, rl, reader) ==
    makeAPIRequestOnBody(req, resp, readResponseBody(resp, reader),
                         IF resp.rl # "" THEN updateRateLimit(rl, resp.rl) ELSE rl)

\* Variant: the rate budget is charged for the attempt before the error of
\* Do is looked at.
makeAPIRequestResponse_chargeFirst(req, resp, rl, reader) ==
    IF resp.err
    THEN Step(updateRateLimit(rl, ""), reader, 0, "return", NoBody,
              Err("API request failed"), <<>>)
    ELSE makeAPIRequestOnResponse(req, resp, rl, reader)

\* makeAPIRequest from the return of its Do on.
makeAPIRequestResponse(req, resp, rl, reader) ==
    IF resp.err
    THEN Step(rl, reader, 0, "return", NoBody, Err("API request failed"), <<>>)
    ELSE makeAPIRequestOnResponse(req, resp, rl, reader)

\* handleRestrictedContent once readResponseBody has returned rb.
readRetryOnBody(rb, rl) ==
    LET used == IF rb.used THEN 1 ELSE 0
    IN  IF rb.err
        THEN Step(rl, rb.reader, used, "return", NoBody,
                  Err("failed to read retry response"), <<>>)
        ELSE Step(rl, rb.reader, used, "return", rb.body, NoErr, <<>>)

\* handleRestrictedContent once its Do has returned a response.
readRetryResponse(resp, rl, reader) == readRetryOnBody(readResponseBody(resp, reader), rl)

\* Variant: the body of the retry is checked for a restriction again and a
\* restricted one is refused.
handleRestrictedContentResponse_recheck(resp, rl, reader) ==
    IF resp.err
    THEN Step(rl, reader, 0, "return", NoBody, Err("retry request failed"), <<>>)
    ELSE LET st == readRetryResponse(resp, rl, reader)
         IN  IF st.err = NoErr /\ UnmarshalErrorResponse(st.body).Reason # ""
             THEN [st EXCEPT !.body = NoBody,
                             !.err = [Err("unknown content restriction") EXCEPT
                                          !.reason = UnmarshalErrorResponse(st.body).Reason]]
             ELSE st

\* Variant: the error of the second Do is dropped and the (absent) response
\* is taken as an empty body.
handleRestrictedContentResponse_dropErr(resp, rl, reader) ==
    IF resp.err
    THEN Step(rl, reader, 0, "return", NoBody, NoErr, <<>>)
    ELSE readRetryResponse(resp, rl, reader)

\* handleRestrictedContent from the return of its Do on.
handleRestrictedContentResponse(resp, rl, reader) ==
    IF resp.err
    THEN Step(rl, reader, 0, "return", NoBody, Err("retry request failed"), <<>>)
    ELSE readRetryResponse(resp, rl, reader)

\* Variant: the two session headers are read into each other's field.
StoreCredentials_swapped(resp) ==
    [accessToken |-> resp.access_token, loid |-> resp.session, session |-> resp.loid]

\* The fields Authenticate assigns after a decoded 200 response.
StoreCredentials(resp) ==
    [accessToken |-> resp.access_token, loid |-> resp.loid, session |-> resp.session]

\* The authenticated flag after a successful exchange.
isAuthenticated(tok) == tok # ""

\* Authenticate from the return of its Do on: the error it returns.
AuthenticateErr(resp) ==
    IF resp.err THEN Err("authentication request failed")
    ELSE IF resp.status # StatusOK
    THEN [Err("authentication failed with status") EXCEPT !.status = resp.status]
    ELSE IF ~resp.decodable THEN Err("failed to decode OAuth response")
    ELSE NoErr

\* Variant: the session headers are captured as soon as a response is there,
\* before its status is looked at.
AuthenticateResponseState_headersFirst(resp, cur) ==
    IF resp.err
    THEN cur
    ELSE IF AuthenticateErr(resp) # NoErr
    THEN [cur EXCEPT !.loid = resp.loid, !.session = resp.session]
    ELSE [accessToken |-> StoreCredentials(resp).accessToken,
          loid |-> StoreCredentials(resp).loid,
          session |-> StoreCredentials(resp).session,
          authenticated |-> isAuthenticated(resp.access_token)]

\* Variant: an empty access_token does not overwrite the token held.
AuthenticateResponseState_keepToken(resp, cur) ==
    IF AuthenticateErr(resp) # NoErr
    THEN cur
    ELSE [accessToken |-> IF resp.access_token = "" THEN cur.accessToken
                          ELSE StoreCredentials(resp).accessToken,
          loid |-> StoreCredentials(resp).loid,
          session |-> StoreCredentials(resp).session,
          authenticated |-> isAuthenticated(resp.access_token)]

\* Authenticate from the return of its Do on: the credentials the client
\* holds afterwards, cur being the ones it held before.
AuthenticateResponseState(resp, cur) ==
    IF AuthenticateErr(resp) # NoErr
    THEN cur
    ELSE [accessToken |-> StoreCredentials(resp).accessToken,
          loid |-> StoreCredentials(resp).loid,
          session |-> StoreCredentials(resp).session,
          authenticated |-> isAuthenticated(resp.access_token)]

\* -------------------------------------------------------------------- state
VARIABLES
    accessToken,    \* Client.accessToken
    loid,           \* Client.loid
    session,        \* Client.session
    authenticated,  \* Client.authenticated
    deviceID,       \* Client.deviceID
    userAgent,      \* Client.userAgent
    rateLimit,      \* Client.rateLimit
    gzipReader,     \* Client.gzipReader
    rateLimitLock,  \* Client.rateLimitLock: the goroutine holding it, or Unlocked
    gzipMutex,      \* Client.gzipMutex: the goroutine holding it, or Unlocked
    pc,             \* where the call in progress is: "idle" when none is
    call,           \* the call in progress, or the last one that returned
    nops,           \* operations started so far
    threads,        \* the goroutines calling the client at the same time
    shuffle         \* the last call of shuffleHeaders on a request of its own

\* The zero value of a mutex; goroutines are numbered from 1.
Unlocked == 0

client == <<accessToken, loid, session, authenticated, deviceID, userAgent, rateLimit,
            gzipReader, rateLimitLock, gzipMutex>>
credentials == <<accessToken, loid, session, authenticated>>
Credentials ==
    [accessToken |-> accessToken, loid |-> loid, session |-> session,
     authenticated |-> authenticated]
vars == <<accessToken, loid, session, authenticated, deviceID, userAgent, rateLimit,
          gzipReader, rateLimitLock, gzipMutex, pc, call, nops, threads, shuffle>>

\* call.sent: the requests handed to Do, as they were when handed over;
\* call.resps: what Do returned for them; call.raw: the bytes makeAPIRequest
\* returned; call.err, call.result: what the operation returned;
\* call.gzUsed: how often the call constructed or reset the decompressor.
NoCall ==
    [op |-> "none", args |-> NoArgs, sent |-> <<>>, resps |-> <<>>, raw |-> NoBody,
     err |-> NoErr, result |-> NilResult, gzUsed |-> 0]

\* No call of shuffleHeaders yet.  headers is the map handed over, iter the
\* order the range over the map gave the keys in, keys the slice after
\* rand.Shuffle, header the request's header after the Sets; repeat tells
\* whether the call before, when there was one, left the keys in the same
\* order ("same") or in another ("other").
NoShuffle ==
    [built |-> FALSE, headers |-> NoHeader, iter |-> <<>>, keys |-> <<>>,
     header |-> NoHeader, repeat |-> "first"]

\* NewClient: the fields of the client it returns.
NewClient ==
    /\ accessToken = ""
    /\ loid = ""
    /\ session = ""
    /\ authenticated = FALSE
    /\ deviceID \in DeviceIDs
    /\ userAgent \in androidVersions
    /\ rateLimit = FullRateLimit
    /\ gzipReader = NilReader
    /\ rateLimitLock = Unlocked
    /\ gzipMutex = Unlocked

\* A new client and one caller, which makes its calls one after the other.
Init ==
    /\ NewClient
    /\ pc = "idle"
    /\ call = NoCall
    /\ nops = 0
    /\ threads = <<>>
    /\ shuffle = NoShuffle

\* A data operation from its call to its first Do, or to its return when it
\* is refused.
StartDataOperationOn(op, args) ==
    /\ pc = "idle"
    /\ \E a \in args :
        LET started == [NoCall EXCEPT !.op = op, !.args = a]
            headers == DataHeaders(accessToken, userAgent, loid, session)
        IN  IF notAuthenticated(authenticated)
            THEN /\ call' = [started EXCEPT !.err = ErrNotAuthenticated]
                 /\ pc' = "idle"
            ELSE IF noAccessToken(accessToken)
            THEN /\ call' = [started EXCEPT
                                !.err = OpReturn(op, NoBody, Err("not authenticated")).err]
                 /\ pc' = "idle"
            ELSE \E keys \in KeyOrders(DOMAIN headers) :
                 /\ call' = [started EXCEPT
                                !.sent = <<DataRequest(Endpoint(op, a), OpParams(op, a),
                                                       headers, keys)>>]
                 /\ pc' = "await"
    /\ UNCHANGED <<client, threads, shuffle>>

StartDataOperation(op) == StartDataOperationOn(op, OpArgs(op))

DataOperation(op) ==
    /\ nops < MaxOps
    /\ nops' = nops + 1
    /\ StartDataOperation(op)

GetSubreddit == DataOperation("GetSubreddit")
GetPost == DataOperation("GetPost")
GetUser == DataOperation("GetUser")
Search == DataOperation("Search")
GetComments == DataOperation("GetComments")
GetMoreComments == DataOperation("GetMoreComments")

\* The call takes a step st: the client fields are written, and the call
\* either sends its next request or returns through the operation.
Advance(resp, st) ==
    /\ rateLimit' = st.rateLimit
    /\ gzipReader' = st.reader
    /\ IF st.next = "await"
       THEN /\ call' = [call EXCEPT !.resps = Append(@, resp),
                                    !.sent = @ \o st.resend,
                                    !.gzUsed = @ + st.used]
            /\ pc' = "awaitRetry"
       ELSE /\ call' = [call EXCEPT !.resps = Append(@, resp),
                                    !.gzUsed = @ + st.used,
                                    !.raw = st.body,
                                    !.err = OpReturn(call.op, st.body, st.err).err,
                                    !.result = OpReturn(call.op, st.body, st.err).result]
            /\ pc' = "idle"
    /\ UNCHANGED <<accessToken, loid, session, authenticated, deviceID, userAgent,
                   rateLimitLock, gzipMutex, nops, threads, shuffle>>

\* The transport answers the first request of the call and makeAPIRequest
\* runs on.
FirstResponse(responses) ==
    /\ pc = "await"
    /\ \E resp \in responses :
        Advance(resp, makeAPIRequestResponse(call.sent[1], resp, rateLimit, gzipReader))

makeAPIRequest == FirstResponse(DataResponses)

\* The transport answers the resent request and handleRestrictedContent
\* runs on.
SecondResponse(responses) ==
    /\ pc = "awaitRetry"
    /\ \E resp \in responses :
        Advance(resp, handleRestrictedContentResponse(resp, rateLimit, gzipReader))

RetryResponse == SecondResponse(DataResponses)

\* Authenticate up to its Do.
StartAuthenticate ==
    /\ pc = "idle"
    /\ \E qos \in QosValues :
        LET headers == AuthHeaders(userAgent, deviceID, qos)
        IN  \E keys \in KeyOrders(DOMAIN headers) :
            call' = [NoCall EXCEPT !.op = "Authenticate",
                                   !.sent = <<AuthRequest(headers, keys)>>]
    /\ pc' = "awaitAuth"
    /\ UNCHANGED <<client, threads, shuffle>>

Authenticate ==
    /\ nops < MaxOps
    /\ nops' = nops + 1
    /\ StartAuthenticate

\* The transport answers the token request and Authenticate runs on.
AuthenticateReturns(responses) ==
    /\ pc = "awaitAuth"
    /\ \E resp \in responses :
        /\ call' = [call EXCEPT !.resps = Append(@, resp), !.err = AuthenticateErr(resp)]
        /\ LET after == AuthenticateResponseState(resp, Credentials)
           IN  /\ accessToken' = after.accessToken
               /\ loid' = after.loid
               /\ session' = after.session
               /\ authenticated' = after.authenticated
    /\ pc' = "idle"
    /\ UNCHANGED <<deviceID, userAgent, rateLimit, gzipReader, rateLimitLock, gzipMutex,
                   nops, threads, shuffle>>

AuthenticateResponse == AuthenticateReturns(AuthResponses)

Next ==
    \/ GetSubreddit
    \/ GetPost
    \/ GetUser
    \/ Search
    \/ GetComments
    \/ GetMoreComments
    \/ makeAPIRequest
    \/ RetryResponse
    \/ Authenticate
    \/ AuthenticateResponse

Spec == Init /\ [][Next]_vars

\* ------------------------------------------------- calls without a bound
\* One caller makes any number of calls on a new client.  The transport
\* serves a listing or a gated answer, with or without a rate header, whose
\* value is a count or no number at all.
LongRunRateHeaders == {"", "0", "57", "many"}
LongRunResponses ==
    {TransportError}
    \cup {HTTPResponse(s, rl, "", Plain(b)) :
            s \in Statuses, rl \in LongRunRateHeaders, b \in {ListingBody, ReasonBody("gated")}}
LongRunAuthResponses ==
    {AuthTransportError,
     [err |-> FALSE, status |-> StatusOK, decodable |-> TRUE, access_token |-> "tok1",
      loid |-> "loid1", session |-> "sess1"]}

LongRunGetSubreddit == StartDataOperation("GetSubreddit") /\ UNCHANGED nops
LongRunFirstResponse == FirstResponse(LongRunResponses)
LongRunRetryResponse == SecondResponse(LongRunResponses)
LongRunAuthenticate == StartAuthenticate /\ UNCHANGED nops
LongRunAuthenticateResponse == AuthenticateReturns(LongRunAuthResponses)

NextLongRun ==
    \/ LongRunGetSubreddit
    \/ LongRunFirstResponse
    \/ LongRunRetryResponse
    \/ LongRunAuthenticate
    \/ LongRunAuthenticateResponse

SpecLongRun == Init /\ [][NextLongRun]_vars

\* ------------------------------------------------- clients that differ
\* The same calls on a client that drew any of the user agents of the list
\* and one of two device ids.
androidVersionList ==
    {"Reddit/2023.46.0/Android 12", "Reddit/2023.45.0/Android 11",
     "Reddit/2023.44.0/Android 13", "Reddit/2023.43.0/Android 12",
     "Reddit/2023.42.0/Android 11"}
uuidNew == {"device-uuid", "another-uuid"}

InitIdentity ==
    /\ accessToken = ""
    /\ loid = ""
    /\ session = ""
    /\ authenticated = FALSE
    /\ deviceID \in uuidNew
    /\ userAgent \in androidVersionList
    /\ rateLimit = FullRateLimit
    /\ gzipReader = NilReader
    /\ rateLimitLock = Unlocked
    /\ gzipMutex = Unlocked
    /\ pc = "idle"
    /\ call = NoCall
    /\ nops = 0
    /\ threads = <<>>
    /\ shuffle = NoShuffle

SpecIdentity == InitIdentity /\ [][NextLongRun]_vars

\* ------------------------------------------------- shuffleHeaders alone
\* shuffleHeaders is called again and again with one header map on a fresh
\* request, as TestShuffleHeaders does.  The maps have up to MaxHeaders of
\* these names, two of which net/http takes for the same header.
ShuffleNames == {"Header1", "Header2", "Header3", "header1"}
ShuffleValue(k) ==
    CASE k = "Header1" -> "Value1"
      [] k = "Header2" -> "Value2"
      [] k = "Header3" -> "Value3"
      [] k = "header1" -> "value1"
ShuffleHeaderMaps ==
    {[k \in S |-> ShuffleValue(k)] :
        S \in {S \in SUBSET ShuffleNames : Cardinality(S) <= MaxHeaders}}

InitShuffle ==
    /\ NewClient
    /\ pc = "idle"
    /\ call = NoCall
    /\ nops = 0
    /\ threads = <<>>
    /\ shuffle \in {[NoShuffle EXCEPT !.headers = h] : h \in ShuffleHeaderMaps}

\* One call of shuffleHeaders(req, headers) on a request without headers.
ShuffleHeadersCall ==
    /\ \E iter \in AllOrders(DOMAIN shuffle.headers) :
        \E keys \in randShuffle(iter) :
            shuffle' = [built |-> TRUE,
                        headers |-> shuffle.headers,
                        iter |-> iter,
                        keys |-> keys,
                        header |-> shuffleHeaders(NoHeader, shuffle.headers, keys),
                        repeat |-> IF ~shuffle.built THEN "first"
                                   ELSE IF keys = shuffle.keys THEN "same" ELSE "other"]
    /\ UNCHANGED <<client, pc, call, nops, threads>>

NextShuffle == ShuffleHeadersCall

SpecShuffle == InitShuffle /\ [][NextShuffle]_vars

\* The response the call has received last.
LastResponse(c) == c.resps[Len(c.resps)]

\* ------------------------------------------------------ concurrent callers
\* NumCalls goroutines call one client at the same time, one call each.  A
\* goroutine takes one step for each access to a field of the client that
\* another goroutine may write, and for each blocking call.
Goroutines == 1..NumCalls

\* A goroutine: pc is where its call is, call is the call as NoCall records
\* it, hdr holds the fields read so far for the header map, tmp the value of
\* c.rateLimit loaded for the decrement.
NoHdr == [tok |-> "", loid |-> ""]
Goroutine(op, args) ==
    [pc |-> "start", call |-> [NoCall EXCEPT !.op = op, !.args = args], hdr |-> NoHdr,
     tmp |-> FullRateLimit]

\* The listing the transport serves to goroutine p: every call asks for a
\* listing of its own.
OwnListing(p) == Obj("", "listing " \o ToString(p))

ConcurrentResponses(p) ==
    {TransportError, HTTPResponse(StatusOK, "42", "", Plain(OwnListing(p)))}
    \cup {HTTPResponse(StatusOK, rl, "gzip", Gzip(b)) :
            rl \in RateLimitHeaders, b \in {OwnListing(p), ReasonBody("gated")}}
ConcurrentRetryResponses(p) ==
    {TransportError, HTTPResponse(StatusOK, "42", "gzip", Gzip(OwnListing(p)))}

\* The credentials of the first and of the second successful Authenticate.
FirstCredentials ==
    [accessToken |-> "tok1", loid |-> "loid1", session |-> "sess1", authenticated |-> TRUE]
SecondCredentials ==
    [accessToken |-> "tok2", loid |-> "loid2", session |-> "sess2", authenticated |-> TRUE]
ReauthResponses ==
    {AuthTransportError,
     [err |-> FALSE, status |-> StatusOK, decodable |-> TRUE,
      access_token |-> SecondCredentials.accessToken,
      loid |-> SecondCredentials.loid, session |-> SecondCredentials.session]}

\* A client on which Authenticate has succeeded once and nothing else was
\* called.
AuthenticatedClient ==
    /\ accessToken = FirstCredentials.accessToken
    /\ loid = FirstCredentials.loid
    /\ session = FirstCredentials.session
    /\ authenticated = FirstCredentials.authenticated
    /\ deviceID \in DeviceIDs
    /\ userAgent \in androidVersions
    /\ rateLimit = FullRateLimit
    /\ gzipReader = NilReader
    /\ rateLimitLock = Unlocked
    /\ gzipMutex = Unlocked
    /\ pc = "idle"
    /\ call = NoCall
    /\ nops = 0

\* c.rateLimitLock.Lock() returns once nobody holds the lock.
\* Variant: updateRateLimit does not take the lock.
rateLimitLockFree_noLock(rlLock, gzMutex) == TRUE

\* Variant: one exclusion scope for both, the rate update waits for the
\* decompressor as well.
rateLimitLockFree_oneScope(rlLock, gzMutex) == rlLock = Unlocked /\ gzMutex = Unlocked

rateLimitLockFree(rlLock, gzMutex) == rlLock = Unlocked

\* Variant: readResponseBody does not take the mutex.
gzipMutexFree_noLock(gzMutex) == TRUE

\* c.gzipMutex.Lock() returns once nobody holds the mutex.
gzipMutexFree(gzMutex) == gzMutex = Unlocked

\* Variant: Unlock is called at the end of readResponseBody only, the
\* returns with an error leave without it.
deferUnlock_lastLine(holder, failed) == IF failed THEN holder ELSE Unlocked

\* defer c.gzipMutex.Unlock(): the mutex is released however
\* readResponseBody returns, with an error (failed) or without.
deferUnlock(holder, failed) == Unlocked

\* The goroutine when its call returns body and err from makeAPIRequest.
Finish(t, body, err) ==
    [t EXCEPT !.pc = "done",
              !.call.raw = body,
              !.call.err = OpReturn(t.call.op, body, err).err,
              !.call.result = OpReturn(t.call.op, body, err).result]

\* The goroutine when readResponseBody has returned rb to it: makeAPIRequest
\* for the first response, handleRestrictedContent for the second.
AfterBody(t, rb) ==
    LET st == IF Len(t.call.resps) = 1
              THEN makeAPIRequestOnBody(t.call.sent[1], t.call.resps[1], rb, t.tmp)
              ELSE readRetryOnBody(rb, t.tmp)
    IN  IF st.next = "await"
        THEN [t EXCEPT !.pc = "awaitRetry", !.call.sent = @ \o st.resend]
        ELSE Finish(t, st.body, st.err)

\* The data operation is entered: the flag and the token are checked.
GoDataOperation(p) ==
    /\ threads[p].pc = "start"
    /\ threads[p].call.op \in DataOps
    /\ threads' = [threads EXCEPT ![p] =
            IF notAuthenticated(authenticated)
            THEN [@ EXCEPT !.pc = "done", !.call.err = ErrNotAuthenticated]
            ELSE IF noAccessToken(accessToken)
            THEN Finish(@, NoBody, Err("not authenticated"))
            ELSE [@ EXCEPT !.pc = "hdrToken"]]
    /\ UNCHANGED <<client, pc, call, nops, shuffle>>

\* The header map is built: c.accessToken is read,
GoHeaderToken(p) ==
    /\ threads[p].pc = "hdrToken"
    /\ threads' = [threads EXCEPT ![p].pc = "hdrLoid", ![p].hdr.tok = accessToken]
    /\ UNCHANGED <<client, pc, call, nops, shuffle>>

\* then c.loid,
GoHeaderLoid(p) ==
    /\ threads[p].pc = "hdrLoid"
    /\ threads' = [threads EXCEPT ![p].pc = "hdrSession", ![p].hdr.loid = loid]
    /\ UNCHANGED <<client, pc, call, nops, shuffle>>

\* then c.session; the headers are set and the request is handed to Do.
GoHeaderSession(p) ==
    /\ threads[p].pc = "hdrSession"
    /\ LET t == threads[p]
           headers == DataHeaders(t.hdr.tok, userAgent, t.hdr.loid, session)
       IN  \E keys \in KeyOrders(DOMAIN headers) :
            threads' = [threads EXCEPT ![p] =
                [t EXCEPT !.pc = "await",
                          !.hdr = NoHdr,
                          !.call.sent = <<DataRequest(Endpoint(t.call.op, t.call.args),
                                                      OpParams(t.call.op, t.call.args),
                                                      headers, keys)>>]]
    /\ UNCHANGED <<client, pc, call, nops, shuffle>>

\* Do returns: an error ends the call, a rate header leads into
\* updateRateLimit, and the body is read otherwise.
GoDoOn(p, responses) ==
    /\ threads[p].pc = "await"
    /\ \E resp \in responses :
        LET t == [threads[p] EXCEPT !.call.resps = Append(@, resp)]
        IN  threads' = [threads EXCEPT ![p] =
                IF resp.err THEN Finish(t, NoBody, Err("API request failed"))
                ELSE IF resp.rl # "" THEN [t EXCEPT !.pc = "rateLock"]
                ELSE [t EXCEPT !.pc = "readBody"]]
    /\ UNCHANGED <<client, pc, call, nops, shuffle>>

GoDo(p) == GoDoOn(p, ConcurrentResponses(p))

\* updateRateLimit: c.rateLimitLock.Lock()
GoRateLock(p) ==
    /\ threads[p].pc = "rateLock"
    /\ rateLimitLockFree(rateLimitLock, gzipMutex)
    /\ rateLimitLock' = p
    /\ threads' = [threads EXCEPT ![p].pc = "rateLoad"]
    /\ UNCHANGED <<accessToken, loid, session, authenticated, deviceID, userAgent,
                   rateLimit, gzipReader, gzipMutex, pc, call, nops, shuffle>>

\* c.rateLimit--, the load
GoRateLoad(p) ==
    /\ threads[p].pc = "rateLoad"
    /\ threads' = [threads EXCEPT ![p].pc = "rateStore", ![p].tmp = rateLimit]
    /\ UNCHANGED <<client, pc, call, nops, shuffle>>

\* c.rateLimit--, the store
GoRateStore(p) ==
    /\ threads[p].pc = "rateStore"
    /\ rateLimit' = Decrement(threads[p].tmp, threads[p].call.resps[1].rl)
    /\ threads' = [threads EXCEPT ![p].pc = "rateRefill", ![p].tmp = FullRateLimit]
    /\ UNCHANGED <<accessToken, loid, session, authenticated, deviceID, userAgent,
                   gzipReader, rateLimitLock, gzipMutex, pc, call, nops, shuffle>>

\* the threshold check, and the deferred Unlock as updateRateLimit returns
GoRateRefill(p) ==
    /\ threads[p].pc = "rateRefill"
    /\ rateLimit' = Refill(rateLimit)
    /\ rateLimitLock' = Unlocked
    /\ threads' = [threads EXCEPT ![p].pc = "readBody"]
    /\ UNCHANGED <<accessToken, loid, session, authenticated, deviceID, userAgent,
                   gzipReader, gzipMutex, pc, call, nops, shuffle>>

\* readResponseBody of a response that is not gzip-encoded.
GoReadPlain(p) ==
    /\ threads[p].pc = "readBody"
    /\ LET t == threads[p]
           resp == LastResponse(t.call)
       IN  /\ resp.enc # "gzip"
           /\ threads' = [threads EXCEPT ![p] =
                  AfterBody(t, [body |-> ReadPlain(resp.wire), err |-> FALSE,
                                reader |-> gzipReader, used |-> FALSE])]
    /\ UNCHANGED <<client, pc, call, nops, shuffle>>

\* readResponseBody of a gzip-encoded response: c.gzipMutex.Lock()
GoGzipLock(p) ==
    /\ threads[p].pc = "readBody"
    /\ LastResponse(threads[p].call).enc = "gzip"
    /\ gzipMutexFree(gzipMutex)
    /\ gzipMutex' = p
    /\ threads' = [threads EXCEPT ![p].pc = "gzipInit"]
    /\ UNCHANGED <<accessToken, loid, session, authenticated, deviceID, userAgent,
                   rateLimit, gzipReader, rateLimitLock, pc, call, nops, shuffle>>

\* gzip.NewReader or Reset on the response's stream; an error returns, and
\* the deferred Unlock runs.
GoGzipInit(p) ==
    /\ threads[p].pc = "gzipInit"
    /\ LET t == [threads[p] EXCEPT !.call.gzUsed = @ + 1]
           init == gzipInit(gzipReader, LastResponse(t.call).wire)
       IN  /\ gzipReader' = init.reader
           /\ IF init.err
              THEN /\ gzipMutex' = deferUnlock(gzipMutex, TRUE)
                   /\ threads' = [threads EXCEPT ![p] =
                          AfterBody(t, [body |-> NoBody, err |-> TRUE,
                                        reader |-> init.reader, used |-> FALSE])]
              ELSE /\ gzipMutex' = gzipMutex
                   /\ threads' = [threads EXCEPT ![p] = [t EXCEPT !.pc = "gzipRead"]]
    /\ UNCHANGED <<accessToken, loid, session, authenticated, deviceID, userAgent,
                   rateLimit, rateLimitLock, pc, call, nops, shuffle>>

\* io.ReadAll(c.gzipReader), and the deferred Unlock as readResponseBody
\* returns.
GoGzipReadAll(p) ==
    /\ threads[p].pc = "gzipRead"
    /\ LET rd == ReadAll(gzipReader)
       IN  /\ gzipReader' = rd.reader
           /\ threads' = [threads EXCEPT ![p] =
                  AfterBody(threads[p], [body |-> rd.body, err |-> rd.err,
                                         reader |-> rd.reader, used |-> FALSE])]
           /\ gzipMutex' = deferUnlock(gzipMutex, rd.err)
    /\ UNCHANGED <<accessToken, loid, session, authenticated, deviceID, userAgent,
                   rateLimit, rateLimitLock, pc, call, nops, shuffle>>

\* The second Do of handleRestrictedContent returns.
GoRetryDoOn(p, responses) ==
    /\ threads[p].pc = "awaitRetry"
    /\ \E resp \in responses :
        LET t == [threads[p] EXCEPT !.call.resps = Append(@, resp)]
        IN  threads' = [threads EXCEPT ![p] =
                IF resp.err THEN Finish(t, NoBody, Err("retry request failed"))
                ELSE [t EXCEPT !.pc = "readBody"]]
    /\ UNCHANGED <<client, pc, call, nops, shuffle>>

GoRetryDo(p) == GoRetryDoOn(p, ConcurrentRetryResponses(p))

\* Authenticate up to its Do.
GoAuthenticate(p) ==
    /\ threads[p].pc = "start"
    /\ threads[p].call.op = "Authenticate"
    /\ \E qos \in QosValues :
        LET headers == AuthHeaders(userAgent, deviceID, qos)
        IN  \E keys \in KeyOrders(DOMAIN headers) :
            threads' = [threads EXCEPT ![p].pc = "awaitAuth",
                                       ![p].call.sent = <<AuthRequest(headers, keys)>>]
    /\ UNCHANGED <<client, pc, call, nops, shuffle>>

\* The Do of Authenticate returns: an error, a status other than 200 or a
\* body that does not decode ends the call.
GoAuthenticateDo(p) ==
    /\ threads[p].pc = "awaitAuth"
    /\ \E resp \in ReauthResponses :
        threads' = [threads EXCEPT
            ![p].call.resps = Append(@, resp),
            ![p].call.err = AuthenticateErr(resp),
            ![p].pc = IF AuthenticateErr(resp) # NoErr THEN "done" ELSE "storeToken"]
    /\ UNCHANGED <<client, pc, call, nops, shuffle>>

\* c.accessToken = oauthResp.AccessToken
GoStoreToken(p) ==
    /\ threads[p].pc = "storeToken"
    /\ accessToken' = StoreCredentials(threads[p].call.resps[1]).accessToken
    /\ authenticated' = isAuthenticated(threads[p].call.resps[1].access_token)
    /\ threads' = [threads EXCEPT ![p].pc = "storeLoid"]
    /\ UNCHANGED <<loid, session, deviceID, userAgent, rateLimit, gzipReader,
                   rateLimitLock, gzipMutex, pc, call, nops, shuffle>>

\* c.loid = resp.Header.Get("x-reddit-loid")
GoStoreLoid(p) ==
    /\ threads[p].pc = "storeLoid"
    /\ loid' = StoreCredentials(threads[p].call.resps[1]).loid
    /\ threads' = [threads EXCEPT ![p].pc = "storeSession"]
    /\ UNCHANGED <<accessToken, authenticated, session, deviceID, userAgent, rateLimit,
                   gzipReader, rateLimitLock, gzipMutex, pc, call, nops, shuffle>>

\* c.session = resp.Header.Get("x-reddit-session"), and Authenticate returns
GoStoreSession(p) ==
    /\ threads[p].pc = "storeSession"
    /\ session' = StoreCredentials(threads[p].call.resps[1]).session
    /\ threads' = [threads EXCEPT ![p].pc = "done"]
    /\ UNCHANGED <<accessToken, authenticated, loid, deviceID, userAgent, rateLimit,
                   gzipReader, rateLimitLock, gzipMutex, pc, call, nops, shuffle>>

\* A step of a data call.
GoDataCall(p) ==
    \/ GoDataOperation(p)
    \/ GoHeaderToken(p)
    \/ GoHeaderLoid(p)
    \/ GoHeaderSession(p)
    \/ GoDo(p)
    \/ GoRateLock(p)
    \/ GoRateLoad(p)
    \/ GoRateStore(p)
    \/ GoRateRefill(p)
    \/ GoReadPlain(p)
    \/ GoGzipLock(p)
    \/ GoGzipInit(p)
    \/ GoGzipReadAll(p)
    \/ GoRetryDo(p)

\* NumCalls data calls at the same time on an authenticated client.
InitConcurrent ==
    /\ AuthenticatedClient
    /\ threads = [p \in Goroutines |->
                    Goroutine("GetSubreddit", CHOOSE a \in OpArgs("GetSubreddit") : TRUE)]
    /\ shuffle = NoShuffle

NextConcurrent == \E p \in Goroutines : GoDataCall(p)

SpecConcurrent == InitConcurrent /\ [][NextConcurrent]_vars

\* A second Authenticate at the same time as the data calls of the other
\* goroutines.
InitReauth ==
    /\ AuthenticatedClient
    /\ threads = [p \in Goroutines |->
                    IF p = 1 THEN Goroutine("Authenticate", NoArgs)
                    ELSE Goroutine("GetSubreddit", CHOOSE a \in OpArgs("GetSubreddit") : TRUE)]
    /\ shuffle = NoShuffle

NextReauth ==
    \E p \in Goroutines :
        \/ GoDataCall(p)
        \/ GoAuthenticate(p)
        \/ GoAuthenticateDo(p)
        \/ GoStoreToken(p)
        \/ GoStoreLoid(p)
        \/ GoStoreSession(p)

SpecReauth == InitReauth /\ [][NextReauth]_vars

\* The same calls when the transport serves gzip streams that are corrupt,
\* in the header or after it, next to valid ones.
CorruptResponses(p) ==
    {HTTPResponse(StatusOK, "", "gzip", w) :
        w \in {Gzip(OwnListing(p)), Gzip(ReasonBody("gated")), BadHeader, BadBody}}

NextCorrupt ==
    \E p \in Goroutines :
        \/ GoDataOperation(p)
        \/ GoHeaderToken(p)
        \/ GoHeaderLoid(p)
        \/ GoHeaderSession(p)
        \/ GoDoOn(p, CorruptResponses(p))
        \/ GoGzipLock(p)
        \/ GoGzipInit(p)
        \/ GoGzipReadAll(p)
        \/ GoRetryDoOn(p, CorruptResponses(p))

SpecCorrupt == InitConcurrent /\ [][NextCorrupt]_vars

\* Data calls at the same time, with or without an Authenticate next to
\* them, with a transport that
\* answers every send, by a response of any kind or by an error, and a
\* scheduler that lets every goroutine that can take a step take one.
InitLive == InitConcurrent \/ InitReauth

LiveResponses(p) ==
    ConcurrentResponses(p) \cup {HTTPResponse(StatusOK, "", "gzip", w) : w \in {BadHeader, BadBody}}
LiveRetryResponses(p) ==
    ConcurrentRetryResponses(p) \cup {HTTPResponse(StatusOK, "", "gzip", BadBody)}

\* The steps of a goroutine that wait for a lock or for the transport, or
\* store a value.
GoLiveStep(p) ==
    \/ GoDataOperation(p)
    \/ GoHeaderToken(p)
    \/ GoHeaderLoid(p)
    \/ GoDoOn(p, LiveResponses(p))
    \/ GoRateLock(p)
    \/ GoRateLoad(p)
    \/ GoRateStore(p)
    \/ GoRateRefill(p)
    \/ GoGzipLock(p)
    \/ GoGzipInit(p)
    \/ GoRetryDoOn(p, LiveRetryResponses(p))
    \/ GoAuthenticate(p)
    \/ GoAuthenticateDo(p)
    \/ GoStoreToken(p)
    \/ GoStoreLoid(p)
    \/ GoStoreSession(p)

\* The steps that only compute: building the request, reading a body.
\* None of them waits for anything, so each can be taken as soon as the
\* goroutine stands before it.
GoLiveCompute(p) ==
    \/ GoHeaderSession(p)
    \/ GoReadPlain(p)
    \/ GoGzipReadAll(p)

CanCompute(p) ==
    \/ threads[p].pc = "hdrSession"
    \/ threads[p].pc = "readBody" /\ LastResponse(threads[p].call).enc # "gzip"
    \/ threads[p].pc = "gzipRead"

GoLive(p) == GoLiveStep(p) \/ GoLiveCompute(p)

NextLive == \E p \in Goroutines : GoLive(p)

\* The Go scheduler runs every goroutine that is runnable: weak fairness
\* of each goroutine's steps.  For the computing steps it is written out,
\* with CanCompute(p) for ENABLED <<GoLiveCompute(p)>>_vars.
Scheduled(p) ==
    /\ WF_vars(GoLiveStep(p))
    /\ ([]<>(~CanCompute(p)) \/ []<><<GoLiveCompute(p)>>_vars)

SpecLive == InitLive /\ [][NextLive]_vars /\ \A p \in Goroutines : Scheduled(p)

\* ------------------------------------------- requests and their answers
\* One caller makes any number of data calls on an authenticated client,
\* also with arguments that hold the characters ? # & =.
RequestArgs(op) ==
    OpArgs(op) \cup
    CASE op = "GetSubreddit" -> {Args(<<"pics#top", "hot">>, <<>>), Args(<<"ask?me", "new">>, <<>>)}
      [] op = "Search" -> {Args(<<"a&b=c#d?e", "top", "week">>, <<>>)}
      [] op = "GetMoreComments" -> {Args(<<"t3_abc123">>, <<"c2", "c1">>)}
      [] OTHER -> {}

RequestResponses(op) ==
    {TransportError}
    \cup {HTTPResponse(s, "", "", Plain(b)) :
            s \in Statuses, b \in {ListingBody, ReasonBody("gated")}}
    \cup {HTTPResponse(StatusOK, "", "", Plain(b)) :
            b \in CASE op = "GetComments" ->
                         {ArrayBody, EmptyArrayBody, ScalarsBody, TwoPostsBody}
                     [] op = "GetMoreComments" -> {ThingsBody, OddThingsBody}
                     [] OTHER -> {}}

InitRequests ==
    /\ AuthenticatedClient
    /\ threads = <<>>
    /\ shuffle = NoShuffle

RequestsDataOperation ==
    \E op \in DataOps : StartDataOperationOn(op, RequestArgs(op)) /\ UNCHANGED nops
RequestsFirstResponse == \E op \in DataOps : call.op = op /\ FirstResponse(RequestResponses(op))
RequestsRetryResponse == \E op \in DataOps : call.op = op /\ SecondResponse(RequestResponses(op))

NextRequests ==
    \/ RequestsDataOperation
    \/ RequestsFirstResponse
    \/ RequestsRetryResponse

SpecRequests == InitRequests /\ [][NextRequests]_vars

\* ----------------------------------------------------- reading a behaviour
\* A data operation has returned.
Returned == pc = "idle" /\ call.op \in DataOps

\* The response carries a document the client can read: plain without
\* Content-Encoding, or a valid gzip stream with it.
Readable(resp) ==
    /\ ~resp.err
    /\ \/ resp.enc = "" /\ resp.wire.gz = "plain"
       \/ resp.enc = "gzip" /\ resp.wire.gz = "gzip"
Document(resp) == resp.wire.data

\* A 200 whose body is {"reason": r} with r non-empty.
Restricted200(resp) ==
    /\ Readable(resp)
    /\ resp.status = StatusOK
    /\ Document(resp).shape = "object"
    /\ Document(resp).reason # ""
Recoverable(resp) == Restricted200(resp) /\ Document(resp).reason \in {"gated", "quarantined"}
Terminal(resp) == Restricted200(resp) /\ Document(resp).reason \notin {"gated", "quarantined"}

\* A 200 whose body is the payload the operation expects.
Normal200(op, resp) ==
    /\ Readable(resp)
    /\ resp.status = StatusOK
    /\ Document(resp).reason = ""
    /\ Document(resp).shape = IF op = "GetComments" THEN "array" ELSE "object"

\* ------------------------------------------------------------------ claims
\* C1: a data operation invoked on a client that is not authenticated
\* returns ErrNotAuthenticated with a nil result and hands no request to the
\* transport.
C1_NotAuthenticated ==
    (call.op \in DataOps /\ ~authenticated) =>
        /\ pc = "idle"
        /\ call.err = ErrNotAuthenticated
        /\ call.result = NilResult
        /\ call.sent = <<>>
        /\ call.resps = <<>>

C1_Witness ==
    /\ Returned
    /\ ~authenticated
    /\ call.err = ErrNotAuthenticated
    /\ nops >= 2

\* C2: when the first response is a 200 with reason "gated" or
\* "quarantined", the call sends exactly two requests, the second with the
\* consent cookie; when the second response is a normal 200 body the call
\* succeeds with the content of that body.
C2_RecoverableRetry ==
    (call.op \in DataOps /\ Len(call.resps) >= 1 /\ Recoverable(call.resps[1])) =>
        /\ Len(call.sent) = 2
        /\ HeaderGet(call.sent[2].header, "Cookie") = CONTENT_WARNING_ACCEPT_COOKIE
        /\ (pc = "idle" => Len(call.resps) = 2)
        /\ (pc = "idle" /\ Normal200(call.op, call.resps[2])) =>
              /\ call.err = NoErr
              /\ call.result = [type |-> ResultType(call.op), body |-> Document(call.resps[2])]

C2_Witness ==
    /\ Returned
    /\ Len(call.resps) = 2
    /\ Recoverable(call.resps[1])
    /\ Document(call.resps[1]).reason = "quarantined"
    /\ Normal200(call.op, call.resps[2])
    /\ call.err = NoErr

\* C3: when the first response is a 200 with a non-empty reason other than
\* "gated" and "quarantined", the call sends one request, is never resent,
\* and fails with the restriction error for that reason.
C3_TerminalRestriction ==
    (call.op \in DataOps /\ Len(call.resps) >= 1 /\ Terminal(call.resps[1])) =>
        /\ pc = "idle"
        /\ Len(call.sent) = 1
        /\ Len(call.resps) = 1
        /\ call.result = NilResult
        /\ IF Document(call.resps[1]).reason = "private"
           THEN call.err.kind = "content is private and cannot be accessed"
           ELSE /\ call.err.kind = "unknown content restriction"
                /\ call.err.reason = Document(call.resps[1]).reason

C3_Witness ==
    /\ Returned
    /\ Len(call.resps) = 1
    /\ Terminal(call.resps[1])
    /\ Document(call.resps[1]).reason = "banned"
    /\ call.err.reason = "banned"

\* C4: a call sends at most two requests, and the body of the retry
\* response is what makeAPIRequest returns, also when that body is a
\* {"reason": ...} document: the operation decodes it like any other body.
C4_AtMostOneRetry ==
    /\ Len(call.sent) <= 2
    /\ (Returned /\ Len(call.resps) = 2 /\ Readable(call.resps[2])) =>
          /\ call.raw = Document(call.resps[2])
          /\ IF UnmarshalOK(call.raw, ResultType(call.op))
             THEN /\ call.err = NoErr
                  /\ call.result = [type |-> ResultType(call.op), body |-> call.raw]
             ELSE /\ call.err = DecodeErr(call.op)
                  /\ call.result = NilResult

C4_Witness ==
    /\ Returned
    /\ Len(call.resps) = 2
    /\ Recoverable(call.resps[2])
    /\ call.raw = Document(call.resps[2])
    /\ call.err = NoErr

\* C5: when Do returns an error for the first request, the call returns the
\* transport failure after that one request, with the rate budget and the
\* decompressor as they were and nothing resent.
C5_TransportErrorFirst ==
    [][(pc = "await" /\ Len(call'.resps) = 1 /\ call'.resps[1].err) =>
          /\ pc' = "idle"
          /\ call'.err.kind = "API request failed"
          /\ call'.result = NilResult
          /\ Len(call'.sent) = 1
          /\ rateLimit' = rateLimit
          /\ gzipReader' = gzipReader
          /\ call'.gzUsed = 0]_vars

C5_Witness ==
    /\ Returned
    /\ Len(call.resps) = 1
    /\ call.resps[1].err
    /\ call.err.kind = "API request failed"

\* C6: when Do returns an error for the resent request, the call fails with
\* the retry failure: two requests were sent, no result is returned and the
\* first response's body is not returned.
C6_TransportErrorRetry ==
    (Returned /\ Len(call.resps) = 2 /\ call.resps[2].err) =>
        /\ call.err.kind = "retry request failed"
        /\ call.result = NilResult
        /\ call.raw = NoBody
        /\ Len(call.sent) = 2

C6_Witness ==
    /\ Returned
    /\ Len(call.resps) = 2
    /\ call.resps[2].err
    /\ call.err.kind = "retry request failed"
    /\ Recoverable(call.resps[1])

\* Authenticate has returned after a 200 response whose body decoded.
AuthenticatedOn200 ==
    /\ pc = "idle"
    /\ call.op = "Authenticate"
    /\ ~call.resps[1].err
    /\ call.resps[1].status = StatusOK
    /\ call.resps[1].decodable

C8_FailedAuthenticateFrame ==
    [][(\/ pc = "idle" /\ pc' = "awaitAuth"
        \/ pc = "awaitAuth" /\ call'.err # NoErr) =>
          /\ UNCHANGED credentials
          /\ Len(call'.sent) = 1]_vars

C8_Witness ==
    /\ pc = "idle"
    /\ call.op = "Authenticate"
    /\ call.err # NoErr
    /\ ~call.resps[1].err
    /\ call.resps[1].loid # loid
    /\ authenticated
    /\ accessToken # ""

C10_RequestCarriesCredentials ==
    call.op \in DataOps =>
        \A i \in 1..Len(call.sent) :
            /\ HeaderGet(call.sent[i].header, "Authorization") = "Bearer " \o accessToken
            /\ HeaderGet(call.sent[i].header, "x-reddit-loid") = loid
            /\ HeaderGet(call.sent[i].header, "x-reddit-session") = session

C10_Witness ==
    /\ call.op \in DataOps
    /\ Len(call.sent) = 2
    /\ nops = 3
    /\ accessToken = "tok2"
    /\ HeaderGet(call.sent[2].header, "Authorization") = "Bearer tok2"
    /\ HeaderGet(call.sent[2].header, "x-reddit-session") = "sess2"

\* The credentials a request carries.
CarriedCredentials(req) ==
    <<HeaderGet(req.header, "Authorization"), HeaderGet(req.header, "x-reddit-loid"),
      HeaderGet(req.header, "x-reddit-session")>>

\* C11 as stated: a data call that runs at the same time as a successful
\* Authenticate builds its request from the three old credentials or from
\* the three new ones, never from some of each.
C11_CredentialsNotMixed ==
    \A p \in Goroutines :
        (threads[p].call.op \in DataOps /\ Len(threads[p].call.sent) >= 1) =>
            CarriedCredentials(threads[p].call.sent[1]) \in
                {<<"Bearer " \o c.accessToken, c.loid, c.session>> :
                    c \in {FirstCredentials, SecondCredentials}}

\* One rate signal applied to the budget b.
OneSignal(b) == IF b - 1 >= RateLimitThreshold THEN b - 1 ELSE FullRateLimit

\* k rate signals applied one after the other to the budget b.
RECURSIVE Signals(_, _)
Signals(k, b) == IF k = 0 THEN b ELSE Signals(k - 1, OneSignal(b))

\* Goroutine p has received a first response with a rate header and has
\* left updateRateLimit.
Charged(p) ==
    /\ Len(threads[p].call.resps) >= 1
    /\ ~threads[p].call.resps[1].err
    /\ threads[p].call.resps[1].rl # ""
    /\ threads[p].pc \notin {"rateLock", "rateLoad", "rateStore", "rateRefill"}

AllDone == \A p \in Goroutines : threads[p].pc = "done"

\* C12: whenever no goroutine is inside updateRateLimit, and so when all
\* calls have returned, the rate budget is the initial budget with one rate
\* signal applied for each call that got a rate header and has left
\* updateRateLimit: no update is lost and none is applied twice.
C12_RateUpdatesSerialized ==
    (\A p \in Goroutines : threads[p].pc \notin {"rateLoad", "rateStore", "rateRefill"}) =>
        rateLimit = Signals(Cardinality({p \in Goroutines : Charged(p)}), FullRateLimit)

C12_Witness ==
    /\ AllDone
    /\ \A p \in Goroutines : Charged(p)
    /\ rateLimit = FullRateLimit - NumCalls

\* Goroutine p has finished a call whose last response was gzip-encoded, a
\* valid stream, and the one whose body makeAPIRequest returns.
ReturnsGzipBody(p) ==
    /\ threads[p].pc = "done"
    /\ Len(threads[p].call.resps) >= 1
    /\ ~LastResponse(threads[p].call).err
    /\ LastResponse(threads[p].call).enc = "gzip"
    /\ LastResponse(threads[p].call).wire.gz = "gzip"
    /\ (Len(threads[p].call.resps) = 2 \/ ~Restricted200(LastResponse(threads[p].call)))

\* C19: at most one goroutine at a time is between taking the decompressor
\* for its stream and the end of its read, and every call with a
\* gzip-encoded response gets the decompression of its own response: its own
\* body is returned, and a gated first response is what made it resend.
C19_DecompressorExclusive ==
    /\ Cardinality({p \in Goroutines : threads[p].pc \in {"gzipInit", "gzipRead"}}) <= 1
    /\ \A p \in Goroutines :
        /\ ReturnsGzipBody(p) =>
              /\ threads[p].call.raw = LastResponse(threads[p].call).wire.data
              /\ threads[p].call.err.kind \notin {"failed to read response",
                                                   "failed to read retry response"}
        /\ (Len(threads[p].call.sent) = 2) <=>
              (/\ Len(threads[p].call.resps) >= 1
               /\ Recoverable(threads[p].call.resps[1])
               /\ threads[p].pc \in {"awaitRetry", "readBody", "gzipInit", "gzipRead", "done"}
               /\ (threads[p].pc \in {"readBody", "gzipInit", "gzipRead"} =>
                      Len(threads[p].call.resps) = 2))

C19_Witness ==
    /\ AllDone
    /\ gzipReader.instance = 1
    /\ \A p \in Goroutines :
        /\ ReturnsGzipBody(p)
        /\ threads[p].call.gzUsed = 2
        /\ threads[p].call.raw = OwnListing(p)

\* C20: no goroutine holds the rate lock and the decompressor mutex at once,
\* and a goroutine inside updateRateLimit, or at its Lock with the rate lock
\* free, can take its next step whoever holds the decompressor mutex.
C20_SeparateScopes ==
    \A p \in Goroutines :
        /\ ~(rateLimitLock = p /\ gzipMutex = p)
        /\ (threads[p].pc = "rateLock" /\ rateLimitLock = Unlocked) => ENABLED GoRateLock(p)
        /\ threads[p].pc = "rateLoad" => ENABLED GoRateLoad(p)
        /\ threads[p].pc = "rateStore" => ENABLED GoRateStore(p)
        /\ threads[p].pc = "rateRefill" => ENABLED GoRateRefill(p)

C20_Witness ==
    \E p, q \in Goroutines :
        /\ gzipMutex = p
        /\ threads[p].pc = "gzipRead"
        /\ threads[q].pc = "rateLock"
        /\ rateLimitLock = Unlocked

\* C13: a response with a rate header turns the budget b into b - 1 when
\* b - 1 >= 10 and into 100 otherwise, whatever the header's value is.
C13_OneRateSignal ==
    [][(pc = "await" /\ call'.resps[1].rl # "") =>
          /\ rateLimit - 1 >= 10 => rateLimit' = rateLimit - 1
          /\ rateLimit - 1 < 10 => rateLimit' = 100]_vars

C13_Witness ==
    /\ Returned
    /\ Len(call.resps) = 1
    /\ call.resps[1].rl = "57"
    /\ call.resps[1].status = StatusOK
    /\ rateLimit = 10

\* C14: from a new client on, whatever calls are made, the rate budget is
\* never negative and lies between 10 and 100.
C14_BudgetRange ==
    /\ rateLimit >= 0
    /\ rateLimit >= 10
    /\ rateLimit <= 100

C14_Witness ==
    /\ pc = "await"
    /\ rateLimit = 10
    /\ call.op = "GetSubreddit"

\* C15 as stated: every response a data call receives with a non-empty
\* x-ratelimit-remaining header, the first one and the one to the resent
\* request alike, applies one rate signal to the budget.
C15_EveryResponseCharged ==
    [][(/\ pc \in {"await", "awaitRetry"}
        /\ ~call'.resps[Len(call'.resps)].err
        /\ call'.resps[Len(call'.resps)].rl # "") =>
          rateLimit' = OneSignal(rateLimit)]_vars

\* C16: the first response of a data call changes the rate budget by one
\* rate signal when it carries a non-empty x-ratelimit-remaining header,
\* whatever the call returns afterwards, and leaves it as it was otherwise.
C16_FirstResponseRate ==
    [][pc = "await" =>
          rateLimit' = IF call'.resps[1].rl # "" THEN OneSignal(rateLimit) ELSE rateLimit]_vars

C16_Witness ==
    /\ Returned
    /\ nops = 2
    /\ Len(call.resps) = 1
    /\ call.resps[1].rl # ""
    /\ call.err.kind = "failed to read response"
    /\ rateLimit = FullRateLimit - 1

\* C17: a call whose responses are gzip-encoded returns the decompression
\* of its own response: the document of the response makeAPIRequest returns
\* the body of, or reports the status of, whatever the decompressor read in
\* earlier calls and earlier in this call.
C17_OwnGzipBody ==
    (/\ Returned
     /\ Len(call.resps) >= 1
     /\ ~LastResponse(call).err
     /\ LastResponse(call).enc = "gzip"
     /\ LastResponse(call).wire.gz = "gzip") =>
        /\ (Len(call.resps) = 2 \/ (LastResponse(call).status = StatusOK
                                      /\ ~Restricted200(LastResponse(call)))) =>
              /\ call.raw = LastResponse(call).wire.data
              /\ call.err.kind \notin {"failed to read response",
                                       "failed to read retry response"}
        /\ (Len(call.resps) = 1 /\ LastResponse(call).status # StatusOK) =>
              /\ call.err.kind = "API request failed with status"
              /\ call.err.body = LastResponse(call).wire.data

C17_Witness ==
    /\ Returned
    /\ nops = 3
    /\ call.gzUsed = 2
    /\ call.resps[1].wire = Gzip(ReasonBody("gated"))
    /\ call.resps[2].wire = Gzip(ListingBody)
    /\ call.raw = ListingBody
    /\ call.err = NoErr

\* The step hands a gzip-encoded response to readResponseBody.
ReceivesGzip ==
    /\ pc \in {"await", "awaitRetry"}
    /\ ~LastResponse(call').err
    /\ LastResponse(call').enc = "gzip"

\* C18 as stated: the decompressor is absent on a new client, is
\* constructed by the first gzip-encoded response and by nothing else, and
\* once constructed stays the same instance.
C18_Original ==
    /\ gzipReader = NilReader
    /\ [][(gzipReader.alloc =>
                /\ gzipReader'.alloc
                /\ gzipReader'.instance = gzipReader.instance)
          /\ (~gzipReader.alloc => (gzipReader'.alloc <=> ReceivesGzip))]_vars

\* C18, amended: the decompressor is absent on a new client, is constructed
\* by the first gzip-encoded response whose stream starts with a valid gzip
\* header and by nothing else, and once constructed stays the same instance,
\* which every later gzip-encoded response is read through.
C18_LazyReader ==
    /\ gzipReader = NilReader
    /\ [][(gzipReader.alloc =>
                /\ gzipReader'.alloc
                /\ gzipReader'.instance = gzipReader.instance
                /\ (ReceivesGzip => gzipReader'.at \in {"eof", "err"}))
          /\ (~gzipReader.alloc =>
                (gzipReader'.alloc <=>
                    (ReceivesGzip /\ LastResponse(call').wire.gz \in {"gzip", "badbody"})))]_vars

C18_Witness ==
    /\ Returned
    /\ nops = 3
    /\ call.gzUsed = 2
    /\ call.resps[1].wire = Gzip(ReasonBody("gated"))
    /\ call.resps[2].wire = BadBody
    /\ gzipReader.alloc
    /\ gzipReader.instance = 1
    /\ gzipReader.at = "err"

\* The call has failed with the API-status error for response resp.
ApiStatusError(c, resp) ==
    /\ c.err.kind = "API request failed with status"
    /\ c.err.status = resp.status
    /\ c.err.body = Document(resp)
    /\ c.result = NilResult

\* C21, as stated: a first response with a status other than 200 makes the
\* call fail with the API-status error after one send, whatever its body.
C21_Original ==
    (call.op \in DataOps /\ Len(call.resps) >= 1 /\ ~call.resps[1].err
        /\ call.resps[1].status # StatusOK) =>
        /\ pc = "idle"
        /\ Len(call.sent) = 1
        /\ call.err.kind = "API request failed with status"
        /\ call.err.status = call.resps[1].status

\* C21: a first response with a status other than 200 ends the call after
\* one send, also when its body is {"reason": "gated"} or "quarantined":
\* with the API-status error carrying the status and the decompressed body
\* when the body can be read, with the read error when it cannot.
C21_NonOKStatus ==
    (call.op \in DataOps /\ Len(call.resps) >= 1 /\ ~call.resps[1].err
        /\ call.resps[1].status # StatusOK) =>
        /\ pc = "idle"
        /\ Len(call.sent) = 1
        /\ Len(call.resps) = 1
        /\ IF Readable(call.resps[1])
           THEN ApiStatusError(call, call.resps[1])
           ELSE call.err.kind = "failed to read response" /\ call.result = NilResult

C21_Witness ==
    /\ Returned
    /\ Len(call.resps) = 1
    /\ call.resps[1].status = 404
    /\ call.resps[1].enc = "gzip"
    /\ Readable(call.resps[1])
    /\ Document(call.resps[1]) = ReasonBody("gated")
    /\ ApiStatusError(call, call.resps[1])
    /\ call.err.body = ReasonBody("gated")

\* C22: a data call whose last response has a status other than 200 (and a
\* body that can be read) fails with the API-status error for that response,
\* the response to the resent request included.
C22_NonOKNeverSucceeds ==
    (Returned /\ Len(call.resps) >= 1 /\ Readable(LastResponse(call))
        /\ LastResponse(call).status # StatusOK) =>
        /\ call.err # NoErr
        /\ ApiStatusError(call, LastResponse(call))

\* C23: a data operation that has returned has either a typed result and no
\* error, or an error and a nil result; Authenticate, which has no result,
\* either returns nil having stored the credentials of the response, or an
\* error having stored nothing.
C23_OneOutcome ==
    /\ [](Returned =>
            \/ call.err = NoErr /\ call.result.type = ResultType(call.op)
            \/ call.err # NoErr /\ call.result = NilResult)
    /\ [][(pc = "awaitAuth" /\ pc' = "idle") =>
             /\ call'.result = NilResult
             /\ \/ /\ call'.err = NoErr
                   /\ accessToken' = LastResponse(call').access_token
                   /\ loid' = LastResponse(call').loid
                   /\ session' = LastResponse(call').session
                \/ /\ call'.err # NoErr
                   /\ UNCHANGED credentials]_vars

C23_Witness ==
    /\ Returned
    /\ call.op = "GetMoreComments"
    /\ Len(call.resps) = 2
    /\ Readable(call.resps[2])
    /\ call.err = DecodeErr(call.op)
    /\ call.result = NilResult

\* C24: the keys are inserted in an order that is a permutation of the map's
\* keys; whatever order the range over the map gave them in, rand.Shuffle
\* can leave them in every order, and for a map of two or more keys in
\* another order than the one this call inserted in.
C24_RandomOrder ==
    shuffle.built =>
        /\ shuffle.keys \in AllOrders(DOMAIN shuffle.headers)
        /\ randShuffle(shuffle.iter) = AllOrders(DOMAIN shuffle.headers)
        /\ Cardinality(DOMAIN shuffle.headers) >= 2 =>
              \E o \in randShuffle(shuffle.iter) : o # shuffle.keys

C24_Witness ==
    /\ shuffle.built
    /\ Cardinality(DOMAIN shuffle.headers) >= 3
    /\ shuffle.repeat = "other"
    /\ shuffle.keys # shuffle.iter

\* The request has every name of the map set to the map's value, has as
\* many names as the map, and has the same content for every order of
\* insertion.
SameContent(s) ==
    /\ \A k \in DOMAIN s.headers : HeaderGet(s.header, k) = s.headers[k]
    /\ Cardinality(DOMAIN s.header) = Cardinality(DOMAIN s.headers)
    /\ \A o \in AllOrders(DOMAIN s.headers) :
          shuffleHeaders(NoHeader, s.headers, o) = s.header

\* No two names of the map are the same header name for net/http.
CanonicalDistinct(headers) ==
    \A k1, k2 \in DOMAIN headers :
        CanonicalHeaderKey(k1) = CanonicalHeaderKey(k2) => k1 = k2

\* C25, as stated: for every header map and every order, the request has
\* the map's content after shuffleHeaders.
C25_Original == shuffle.built => SameContent(shuffle)

\* C25: for every header map whose names stay distinct when net/http
\* canonicalises them, and every order, the request has the map's content
\* after shuffleHeaders: no header dropped, none twice, the same for all
\* orders.
C25_SameContent ==
    (shuffle.built /\ CanonicalDistinct(shuffle.headers)) => SameContent(shuffle)

C25_Witness ==
    /\ shuffle.built
    /\ CanonicalDistinct(shuffle.headers)
    /\ Cardinality(DOMAIN shuffle.headers) >= 3
    /\ "header1" \in DOMAIN shuffle.headers
    /\ shuffle.keys # shuffle.iter
    /\ SameContent(shuffle)

\* C26: every request of a data call goes to the API host with raw_json = 1
\* exactly once among its query parameters, next to every parameter of the
\* operation with its values.
C26_RawJsonOnce ==
    call.op \in DataOps =>
        \A i \in 1..Len(call.sent) :
            /\ call.sent[i].url.base = ApiHost
            /\ "raw_json" \in DOMAIN call.sent[i].url.query
            /\ call.sent[i].url.query["raw_json"] = <<"1">>
            /\ \A k \in DOMAIN OpParams(call.op, call.args) :
                  /\ k \in DOMAIN call.sent[i].url.query
                  /\ call.sent[i].url.query[k] = OpParams(call.op, call.args)[k]

\* The query parameters of Search(query, sort, timeframe).
SearchQuery(a) ==
    [k \in {"q", "sort", "t", "raw_json"} |->
        CASE k = "q" -> <<a.s[1]>>
          [] k = "sort" -> <<a.s[2]>>
          [] k = "t" -> <<a.s[3]>>
          [] k = "raw_json" -> <<"1">>]

\* The first request of the call is a GET to path with exactly the
\* parameters query.
FirstRequestIs(c, path, query) ==
    /\ Len(c.sent) >= 1
    /\ c.sent[1].method = "GET"
    /\ c.sent[1].url.base = ApiHost
    /\ c.sent[1].url.path = path
    /\ c.sent[1].url.query = query

\* The call sends its request once, and once more with the consent cookie
\* exactly when the first response is a 200 with reason "gated" or
\* "quarantined".
ResentOnlyWhenRecoverable(c) ==
    /\ Len(c.sent) <= 2
    /\ Len(c.sent) = 2 <=> (Len(c.resps) >= 1 /\ Recoverable(c.resps[1]))
    /\ Len(c.sent) = 2 => c.sent[2] = WithCookie(c.sent[1])

\* C27, as stated: Search on an authenticated client issues exactly one GET,
\* to /search.json with q, sort, t and raw_json.
C27_Original ==
    (call.op = "Search" /\ pc = "idle") =>
        /\ FirstRequestIs(call, "/search.json", SearchQuery(call.args))
        /\ Len(call.sent) = 1

\* C27: Search on an authenticated client sends a GET to /search.json whose
\* query parameters are q, sort, t and raw_json = 1 and no other, once, and
\* the same request once more with the consent cookie exactly when the first
\* response is a recoverable restriction.
C27_SearchRequest ==
    call.op = "Search" =>
        /\ FirstRequestIs(call, "/search.json", SearchQuery(call.args))
        /\ ResentOnlyWhenRecoverable(call)

C27_Witness ==
    /\ Returned
    /\ call.op = "Search"
    /\ call.args.s[1] = "a&b=c#d?e"
    /\ Len(call.sent) = 1
    /\ call.sent[1].url.query["q"] = <<"a&b=c#d?e">>
    /\ call.err = NoErr

\* The value a call has returned.
Result(c) == Unmarshal(c.result.body, c.result.type).v

\* The query parameters of GetMoreComments(linkID, children).
MoreQuery(a) ==
    [k \in {"api_type", "link_id", "raw_json"}
            \cup (IF a.children # <<>> THEN {"children"} ELSE {}) |->
        CASE k = "api_type" -> <<"json">>
          [] k = "link_id" -> <<a.s[1]>>
          [] k = "raw_json" -> <<"1">>
          [] k = "children" -> a.children]

\* The entries of json.data.things of a document.
ThingsOf(doc) ==
    IF doc.t = "object" /\ "json" \in DOMAIN doc.fields
    THEN doc.fields.json.fields.data.fields.things.elems
    ELSE <<>>

\* The result holds one entry for each entry of json.data.things of the
\* body, in order, with its kind and its data.
FlatThings(c) ==
    LET things == ThingsOf(Content(c.result.body))
        got == Result(c).fields.json.fields.data.fields.things.elems
    IN  /\ Len(got) = Len(things)
        /\ \A i \in DOMAIN things :
              /\ got[i].fields.kind = GoStr(things[i].fields.kind.str)
              /\ got[i].fields.data = DecodeAny(things[i].fields.data)

IsRecord(v) == v.go \in {"map", "struct"}
Members(v) == IF v.go = "struct" THEN v.fields ELSE v.entries
Has(v, f) == f \in DOMAIN Members(v)
Field(v, f) == Members(v)[f]
IsListing(v) ==
    /\ IsRecord(v)
    /\ Has(v, "kind")
    /\ Field(v, "kind") = GoStr("Listing")
    /\ Has(v, "data")
    /\ IsRecord(Field(v, "data"))
    /\ Has(Field(v, "data"), "children")
    /\ Field(Field(v, "data"), "children").go = "slice"
Children(v) == Field(Field(v, "data"), "children").elems

\* A child that follows the rule of the kind tag: of kind t1 it holds a
\* comment record whose replies are "" or a listing of such children, of
\* kind more a placeholder record.
RECURSIVE CommentNodeOK(_)
CommentNodeOK(v) ==
    /\ IsRecord(v)
    /\ Has(v, "kind")
    /\ Has(v, "data")
    /\ Field(v, "kind") = GoStr("t1") =>
          /\ IsRecord(Field(v, "data"))
          /\ Has(Field(v, "data"), "replies") =>
                \/ Field(Field(v, "data"), "replies") = GoStr("")
                \/ /\ IsListing(Field(Field(v, "data"), "replies"))
                   /\ \A i \in DOMAIN Children(Field(Field(v, "data"), "replies")) :
                         CommentNodeOK(Children(Field(Field(v, "data"), "replies"))[i])
    /\ Field(v, "kind") = GoStr("more") => IsRecord(Field(v, "data"))

\* C29: the children of a comment listing are decoded by their kind: a child
\* of kind t1 holds a comment, whose replies are the empty string (a leaf) or
\* a nested listing decoded by the same rule, a child of kind more holds a
\* placeholder.
C29_KindDispatch ==
    (Returned /\ call.err = NoErr) =>
        /\ call.op = "GetMoreComments" =>
              \A i \in DOMAIN Result(call).fields.json.fields.data.fields.things.elems :
                  CommentNodeOK(Result(call).fields.json.fields.data.fields.things.elems[i])
        /\ (call.op = "GetComments" /\ IsListing(Result(call).elems[2])) =>
              \A i \in DOMAIN Children(Result(call).elems[2]) :
                  CommentNodeOK(Children(Result(call).elems[2])[i])

\* C30: every successful GetComments result is a pair whose first element is
\* a listing with a single child, a post record, and whose second element is
\* a listing whose children are all comments or placeholders.
C30_PostAndComments ==
    (Returned /\ call.op = "GetComments" /\ call.err = NoErr) =>
        /\ Len(Result(call).elems) = 2
        /\ IsListing(Result(call).elems[1])
        /\ Len(Children(Result(call).elems[1])) = 1
        /\ Field(Children(Result(call).elems[1])[1], "kind") = GoStr("t3")
        /\ IsRecord(Field(Children(Result(call).elems[1])[1], "data"))
        /\ IsListing(Result(call).elems[2])
        /\ \A i \in DOMAIN Children(Result(call).elems[2]) :
              /\ CommentNodeOK(Children(Result(call).elems[2])[i])
              /\ Field(Children(Result(call).elems[2])[i], "kind") \in {GoStr("t1"), GoStr("more")}

\* C31: every authentication request is a POST to the token endpoint of the
\* public host with Authorization "Basic " and the base64 of the client id
\* and a colon, the client's user agent, X-Reddit-Device-Id and
\* client-vendor-id both the client's device id, Content-Type
\* "application/json; charset=UTF-8", and the scopes *, email, pii as body;
\* an Authenticate sends one such request.
C31_AuthenticationRequest ==
    call.op = "Authenticate" =>
        /\ Len(call.sent) = 1
        /\ call.sent[1].method = "POST"
        /\ call.sent[1].url = [base |-> AuthURL, path |-> "", query |-> NoParams]
        /\ HeaderGet(call.sent[1].header, "Authorization")
              = "Basic " \o Base64(ANDROID_CLIENT_ID \o ":")
        /\ HeaderGet(call.sent[1].header, "User-Agent") = userAgent
        /\ HeaderGet(call.sent[1].header, "X-Reddit-Device-Id") = deviceID
        /\ HeaderGet(call.sent[1].header, "client-vendor-id") = deviceID
        /\ HeaderGet(call.sent[1].header, "Content-Type") = "application/json; charset=UTF-8"
        /\ call.sent[1].body = <<"*", "email", "pii">>

C31_Witness ==
    /\ call.op = "Authenticate"
    /\ pc = "idle"
    /\ nops = 3
    /\ authenticated
    /\ HeaderGet(call.sent[1].header, "Client-Vendor-Id") = deviceID
    /\ deviceID # ""

Unrestricted200(resp) ==
    /\ Readable(resp)
    /\ resp.status = StatusOK
    /\ ~(Document(resp).shape = "object" /\ Document(resp).reason # "")

\* C33: when the first response of a data call is a 200 whose body has no
\* non-empty top-level reason, be it an object or not, the call has sent one
\* request, without a Cookie header, sends no other, and makeAPIRequest
\* returns that body as it is.
C33_UnrestrictedReturnsBody ==
    (call.op \in DataOps /\ Len(call.resps) >= 1 /\ Unrestricted200(call.resps[1])) =>
        /\ pc = "idle"
        /\ Len(call.sent) = 1
        /\ Len(call.resps) = 1
        /\ "Cookie" \notin DOMAIN call.sent[1].header
        /\ call.raw = Document(call.resps[1])
        /\ call.err \in {NoErr, DecodeErr(call.op)}

C33_Witness ==
    /\ Returned
    /\ call.op = "GetComments"
    /\ Len(call.resps) = 1
    /\ Unrestricted200(call.resps[1])
    /\ call.raw = ArrayBody
    /\ call.err = NoErr
    /\ Len(call.sent) = 1

\* C34: the request resent after a restriction has the method, the URL with
\* its query, and the Authorization, User-Agent, x-reddit-loid,
\* x-reddit-session and Accept-Encoding headers of the first request of the
\* call, and the fixed Cookie value besides; the first request was sent
\* without a Cookie header.
C34_RetryIsFirstPlusCookie ==
    (call.op \in DataOps /\ Len(call.sent) >= 2) =>
        /\ call.sent[2].method = call.sent[1].method
        /\ call.sent[2].url = call.sent[1].url
        /\ call.sent[2].body = call.sent[1].body
        /\ \A k \in {"Authorization", "User-Agent", "x-reddit-loid", "x-reddit-session",
                     "Accept-Encoding"} :
              /\ CanonicalHeaderKey(k) \in DOMAIN call.sent[2].header
              /\ HeaderGet(call.sent[2].header, k) = HeaderGet(call.sent[1].header, k)
        /\ DOMAIN call.sent[2].header = DOMAIN call.sent[1].header \cup {"Cookie"}
        /\ HeaderGet(call.sent[2].header, "Cookie") = CONTENT_WARNING_ACCEPT_COOKIE
        /\ "Cookie" \notin DOMAIN call.sent[1].header

C34_Witness ==
    /\ Returned
    /\ call.op = "Search"
    /\ Len(call.sent) = 2
    /\ call.sent[2].url.query["q"] = <<"golang">>
    /\ HeaderGet(call.sent[2].header, "Authorization") = "Bearer tok1"
    /\ HeaderGet(call.sent[2].header, "Cookie") = CONTENT_WARNING_ACCEPT_COOKIE
    /\ call.err = NoErr

\* What a call that has returned would have returned had it been the only
\* call on a new client and received the same responses.
OutcomeAlone(c) ==
    LET first == makeAPIRequestResponse(c.sent[1], c.resps[1], FullRateLimit, NilReader)
        last == IF first.next = "await"
                THEN handleRestrictedContentResponse(c.resps[2], first.rateLimit, first.reader)
                ELSE first
    IN  OpReturn(c.op, last.body, last.err)

\* C35: with data calls running at the same time, the first request of
\* every call carries no Cookie header, whatever retries the other calls
\* have made; a call sends a second request only after a recoverable
\* restriction in its own first response, and what it returns is what it
\* would return alone with the responses it received.
C35_RetryConfined ==
    \A p \in DOMAIN threads :
        LET c == threads[p].call
        IN  /\ Len(c.sent) >= 1 => "Cookie" \notin DOMAIN c.sent[1].header
            /\ Len(c.sent) <= 2
            /\ Len(c.sent) = 2 => (Len(c.resps) >= 1 /\ Recoverable(c.resps[1]))
            /\ (threads[p].pc = "done" /\ Len(c.resps) >= 1) =>
                  /\ Len(c.sent) = 2 <=> Recoverable(c.resps[1])
                  /\ Len(c.resps) = Len(c.sent)
                  /\ c.err = OutcomeAlone(c).err
                  /\ c.result = OutcomeAlone(c).result

C35_Witness ==
    /\ Len(threads) >= 2
    /\ threads[1].pc = "done"
    /\ threads[2].pc = "done"
    /\ Len(threads[1].call.sent) = 2
    /\ threads[1].call.err = NoErr
    /\ Len(threads[2].call.sent) = 1
    /\ "Cookie" \notin DOMAIN threads[2].call.sent[1].header
    /\ threads[2].call.err = NoErr
    /\ threads[2].call.result.body = OwnListing(2)

\* C36: no step of a data operation changes the access token, the loid, the
\* session id or the authenticated flag, and every request a data operation
\* sends is a GET to the API host, none a token request; so it is as well
\* when the step refills the rate budget.
C36_DataCallsKeepCredentials ==
    [][call'.op \in DataOps =>
          /\ UNCHANGED <<accessToken, loid, session, authenticated>>
          /\ \A i \in 1..Len(call'.sent) :
                /\ call'.sent[i].method = "GET"
                /\ call'.sent[i].url.base = ApiHost]_vars

C36_Witness ==
    /\ Returned
    /\ Len(call.resps) = 1
    /\ ~call.resps[1].err
    /\ call.resps[1].rl # ""
    /\ rateLimit = FullRateLimit
    /\ accessToken = "tok1"
    /\ call.err = NoErr

\* The response is gzip-encoded and its stream is corrupt.
CorruptGzip(resp) ==
    ~resp.err /\ resp.enc = "gzip" /\ resp.wire.gz \in {"badheader", "badbody"}

\* C37: a call whose gzip-encoded response cannot be decompressed, at the
\* construction or the reset of the decompressor or while reading, returns
\* the read error and no result; the decompressor mutex is held only while a
\* call is inside readResponseBody and is free once the calls have returned;
\* and a call whose response is a valid gzip stream returns its
\* decompressed document, whatever failed before it.
C37_DecompressionFailure ==
    /\ \A p \in DOMAIN threads :
          LET c == threads[p].call
          IN  /\ gzipMutex = p => threads[p].pc \in {"gzipInit", "gzipRead"}
              /\ (threads[p].pc = "done" /\ Len(c.resps) >= 1 /\ CorruptGzip(LastResponse(c))) =>
                    /\ c.err.kind = IF Len(c.resps) = 1 THEN "failed to read response"
                                    ELSE "failed to read retry response"
                    /\ c.result = NilResult
                    /\ c.raw = NoBody
              /\ (/\ threads[p].pc = "done"
                  /\ Len(c.resps) >= 1
                  /\ LastResponse(c).wire.gz = "gzip"
                  /\ (Len(c.resps) = 2 \/ ~Restricted200(LastResponse(c)))) =>
                    /\ c.raw = LastResponse(c).wire.data
                    /\ c.err \in {NoErr, DecodeErr(c.op)}
    /\ (\A p \in DOMAIN threads : threads[p].pc = "done") => gzipMutex = Unlocked

C37_Witness ==
    /\ Len(threads) >= 2
    /\ threads[1].pc = "done"
    /\ threads[2].pc = "done"
    /\ CorruptGzip(LastResponse(threads[1].call))
    /\ threads[1].call.err.kind = "failed to read response"
    /\ gzipReader.alloc
    /\ gzipReader.at = "eof"
    /\ gzipMutex = Unlocked
    /\ threads[2].call.err = NoErr
    /\ threads[2].call.raw = OwnListing(2)

\* C38: when the transport answers every send and every goroutine that can
\* take a step gets to take one, every one of the calls made at the same
\* time, the Authenticate and the data calls, returns, and from then on
\* neither lock is held.
C38_EveryCallReturns ==
    <>[](/\ \A p \in DOMAIN threads : threads[p].pc = "done"
         /\ rateLimitLock = Unlocked
         /\ gzipMutex = Unlocked)

C38_Witness ==
    /\ Len(threads) >= 2
    /\ \A p \in DOMAIN threads : threads[p].pc = "done"
    /\ threads[1].call.op = "Authenticate"
    /\ threads[1].call.err = NoErr
    /\ threads[2].call.gzUsed = 2
    /\ CorruptGzip(LastResponse(threads[2].call))
    /\ threads[2].call.err.kind = "failed to read retry response"
    /\ rateLimit < FullRateLimit
    /\ gzipMutex = Unlocked
    /\ rateLimitLock = Unlocked

TypeOK ==
    /\ accessToken \in Tokens
    /\ authenticated \in BOOLEAN
    /\ rateLimit \in RateLimitThreshold..FullRateLimit
    /\ pc \in {"idle", "await", "awaitRetry", "awaitAuth"}
    /\ nops \in 0..MaxOps

====
